---------------------------- MODULE Spec2Model ----------------------------
(***************************************************************************)
(* A model of edicast's concurrent core:                                   *)
(*   - fanout.rs : the live_channel publish/subscribe primitive            *)
(*                 (specification SpecFanout; SpecLock for the threads at  *)
(*                 its write lock)                                         *)
(*   - sync.rs   : the rendezvous admission channel                        *)
(*                 (specification SpecRendezvous)                          *)
(*   - source.rs / server/control.rs : the source worker and the control   *)
(*                 endpoint that admits broadcasters (specification Spec)  *)
(*   - stream.rs / server/public.rs : the stream worker, the broadcast of  *)
(*                 encoded chunks and its listeners (specification         *)
(*                 SpecListen)                                             *)
(*   - config.rs / server.rs : loading a configuration and starting the    *)
(*                 workers and the routing table (specification SpecBoot)  *)
(***************************************************************************)
EXTENDS Integers, Sequences, FiniteSets, TLC

(***************************************************************************)
(* Bounds of the model.                                                    *)
(***************************************************************************)
\* number of subscribe calls explored on one live_channel
MaxSubs == 3
\* number of publish calls explored on one live_channel
MaxPublish == 3
\* number of threads that call send / serve control requests concurrently
MaxThreads == 2
\* the clock runs from 0 to MaxTime ticks
MaxTime == 2
\* SourceConfig.buffer_ms, in clock ticks
BufferTicks == 1
\* silence frames are counted up to MaxSilences
MaxSilences == 2
\* number of frames the decoder returns in one session
MaxReads == 2
\* number of batches one session publishes
MaxBatches == 8
\* number of PCM frames the stream worker encodes
MaxChunks == 9
\* number of frames, the first ones, for which the encoder may return an
\* empty buffer (the codec is still buffering internally)
MaxEmpty == 1
\* number of source names a configuration may declare
MaxSources == 2
\* number of stream names a configuration may declare
MaxStreams == 2
\* number of distinct paths the streams of a configuration choose from
MaxPaths == 2
\* number of publish calls explored beside concurrent subscribe calls
MaxLockPublish == 2

(***************************************************************************)
(* Program constants.                                                      *)
(***************************************************************************)
\* fanout.rs: const BUFFER_SIZE: usize = 1;
BUFFER_SIZE == 1
\* source.rs: the 1000 of `buffer_ms * pcm.sample_rate / 1000` (milliseconds
\* per second)
MsPerSec == 1000
\* stream.rs: const BUFFER_SIZE: usize = 8; (the capacity of the stream's
\* tokio broadcast channel)
STREAM_BUFFER_SIZE == 8

VARIABLES
    \* ---- fanout.rs: one LiveChannel<T> ----
    txsSome,    \* LiveChannel.txs is Some(_) (TRUE) or None (FALSE)
    txs,        \* the Vec<Sender<T>> held in LiveChannel.txs, as a sequence of channel ids
    queue,      \* queue[c]: content of bounded channel c (crossbeam bounded(BUFFER_SIZE))
    rxAlive,    \* rxAlive[c]: the Receiver end of channel c exists and has not been dropped
    received,   \* received[c]: items recv has returned on channel c, in order (history)
    closedSeen, \* closedSeen[c]: recv on channel c has returned Err (Closed)
    published,  \* items passed to publish so far, in order (history)
    pubState,   \* "alive" | "dropped" | "panicked": the LivePublisher
    nsubs,      \* number of subscribe calls made so far
    lastSub,    \* result of the latest subscribe call: "none" | "Ok" | "NoPublisher"
    lastPub,    \* how the latest publish call ended: "none" | "returned" | "panicked"
    \* ---- sync.rs: one rendezvous channel ----
    ready,      \* the AtomicBool shared by RendezvousSender and RendezvousReceiver
    recvAlive,  \* the RendezvousReceiver has not been dropped
    tpc,        \* tpc[t]: where sending thread t is: "idle" | "sending" | "taken" | ...
    owner,      \* the thread whose value the live RendezvousHandle holds, 0 if no handle is live
    wpc,        \* where the receiving thread (the source worker) is
    lastSend,   \* <<t, result, n>>: the latest return of RendezvousSender::send (n flips on each)
    now,        \* the monotonic clock (Instant::now), in ticks
    \* ---- source.rs / server/control.rs: one source and its broadcasters ----
    offline,    \* SourceConfig.offline: "Inactive" | "Silence"
    epoch,      \* source_thread_main: epoch of the silence loop
    duration,   \* source_thread_main: accumulated duration of the silence loop
    req,        \* req[t]: what dispatch on thread t holds of its request (method, media type, init_decoder's result)
    txDropped,  \* the StartSource of the current reservation was dropped without start
    lastResp,   \* <<t, status, url>>: the latest response of dispatch, on thread t for url
    liveCount,  \* connect_source calls that returned Ok and whose handle is not dropped yet
    silences,   \* number of silence frames published since the silence epoch
    \* ---- source.rs: one call of run_source ----
    buffer_ms,  \* source.config.buffer_ms
    rpc,        \* where run_source is: "none" | "sleep" | "read" | "drain" | "Ok" | "Err"
    clock,      \* the monotonic clock during the session, in milliseconds
    run_epoch,  \* the epoch argument of run_source
    elapsed,    \* run_source: elapsed, a Ratio <<numer, denom>> in lowest terms (seconds)
    buffer,     \* run_source: buffer, the samples not yet published
    pcm,        \* the PcmData the latest io.read() returned
    decoded,    \* every PcmData io.read() has returned, in order (history)
    batches,    \* every PcmData passed to source.output.publish, with its time (history)
    lastRead,   \* what the last io.read() returned: "none" | "Ok" | the PcmReadError
    \* ---- stream.rs / server/public.rs: one stream and its listeners ----
    outSenders, \* the broadcast::Sender clones alive: "set" (StreamSet), "thread" (worker)
    encodes,    \* number of PCM frames the stream worker has encoded
    empties,    \* number of those for which codec.encode returned an empty buffer
    slots,      \* the ring buffer of the broadcast: slots[i] = [pos, val]
    tail,       \* position the next value sent is stored at
    rx_cnt,     \* number of broadcast::Receiver alive
    stored,     \* every value the broadcast has stored, in order (history)
    lst,        \* lst[l]: listener l is "none" | "streaming" | "ended" | "errored" | "gone"
    lnext,      \* lnext[l]: position the Receiver of listener l reads next
    lstart,     \* lstart[l]: the tail when listener l subscribed (history)
    lbody,      \* lbody[l]: the data frames poll_frame has yielded to listener l, in order
    \* ---- config.rs / server.rs: start-up ----
    config,     \* the parsed Config: [source: set of names, stream: name -> [path, source]]
    boot,       \* "none" | "load" | "sources" | "streams" | "routes" | "running" | "failed" | "panicked"
    loadResult, \* what Config::load returned: [result, stream_name, source_name]
    sourceSet,  \* SourceSet.sources: the names whose source worker was started
    streamSet,  \* StreamSet.stream_outputs: stream name -> the source its worker reads
    public_routes, \* Edicast.public_routes: path -> stream name
    \* ---- fanout.rs: the threads at the write lock of LiveChannel.txs ----
    lock,       \* the RwLock of txs: "free" | "pub" | "sub" (write-locked by) | "poisoned"
    ppc,        \* where the publisher is in publish: "idle" | "wait" | "send" | "remove"
    pidx,       \* publish: the index the first loop is at (1-based)
    pdead,      \* publish: dead_txs, the indices collected so far (1-based)
    spc,        \* spc[c]: the subscribe call that made channel c: "none" | "wait" | "locked" | "returned" | "failed"
    sbegan,     \* sbegan[c]: number of publish calls completed when that subscribe began (history)
    sret,       \* sret[c]: number of publish calls begun when that subscribe returned (history)
    offered     \* offered[c]: the items publish has passed to try_send on a live channel c (history)

fanVars == <<txsSome, txs, queue, rxAlive, received, closedSeen, published,
             pubState, nsubs, lastSub, lastPub>>

rvVars == <<ready, recvAlive, tpc, owner, wpc, lastSend, now>>

srcVars == <<offline, epoch, duration, req, txDropped, lastResp, liveCount, silences>>

runVars == <<buffer_ms, rpc, clock, run_epoch, elapsed, buffer, pcm, decoded, batches,
             lastRead>>

outVars == <<outSenders, encodes, empties, slots, tail, rx_cnt, stored, lst, lnext, lstart,
             lbody>>

cfgVars == <<config, boot, loadResult, sourceSet, streamSet, public_routes>>

lockVars == <<lock, ppc, pidx, pdead, spc, sbegan, sret, offered>>

vars == <<txsSome, txs, queue, rxAlive, received, closedSeen, published, pubState,
          nsubs, lastSub, lastPub,
          ready, recvAlive, tpc, owner, wpc, lastSend, now,
          offline, epoch, duration, req, txDropped, lastResp, liveCount, silences,
          buffer_ms, rpc, clock, run_epoch, elapsed, buffer, pcm, decoded, batches,
          lastRead,
          outSenders, encodes, empties, slots, tail, rx_cnt, stored, lst, lnext, lstart,
          lbody,
          config, boot, loadResult, sourceSet, streamSet, public_routes,
          lock, ppc, pidx, pdead, spc, sbegan, sret, offered>>

(***************************************************************************)
(*                              fanout.rs                                  *)
(***************************************************************************)
Chans == 1..MaxSubs

Threads == 1..MaxThreads

\* the listener connections on one stream
Listeners == {1, 2}

\* live_channel(): txs = Some(Vec::new()), publisher alive, no channel yet
live_channel ==
    /\ txsSome = TRUE
    /\ txs = <<>>
    /\ queue = [c \in Chans |-> <<>>]
    /\ rxAlive = [c \in Chans |-> FALSE]
    /\ received = [c \in Chans |-> <<>>]
    /\ closedSeen = [c \in Chans |-> FALSE]
    /\ published = <<>>
    /\ pubState = "alive"
    /\ nsubs = 0
    /\ lastSub = "none"
    /\ lastPub = "none"

\* rendezvous(): ready = true over a sync_channel(0); no thread is sending,
\* no handle is live
rendezvous ==
    /\ ready = TRUE
    /\ recvAlive = TRUE
    /\ tpc = [t \in Threads |-> "idle"]
    /\ owner = 0
    /\ lastSend = <<0, "none", 0>>

\* no request has been made on the control endpoint
NoRequests ==
    /\ req = [t \in Threads |-> [method |-> "none", media |-> "none", decoder |-> "none"]]
    /\ txDropped = FALSE
    /\ lastResp = <<0, "none", "none">>
    /\ liveCount = 0
    /\ silences = 0
    /\ epoch = 0
    /\ duration = 0

\* a PcmData with no samples (no frame read yet)
NoPcm == [channels |-> 0, sample_rate |-> 0, samples |-> <<>>]

\* run_source has not been called
NoRun ==
    /\ buffer_ms = 0
    /\ rpc = "none"
    /\ clock = 0
    /\ run_epoch = 0
    /\ elapsed = <<0, 1>>
    /\ buffer = <<>>
    /\ pcm = NoPcm
    /\ decoded = <<>>
    /\ batches = <<>>
    /\ lastRead = "none"

\* broadcast::channel(BUFFER_SIZE): an empty ring, one Sender kept by the
\* StreamSet and its clone moved into the stream worker; no listener yet
broadcast_channel ==
    /\ outSenders = {"set", "thread"}
    /\ encodes = 0
    /\ empties = 0
    /\ slots = [i \in 0..(STREAM_BUFFER_SIZE - 1) |-> [pos |-> i - STREAM_BUFFER_SIZE, val |-> <<>>]]
    /\ tail = 0
    /\ rx_cnt = 0
    /\ stored = <<>>
    /\ lst = [l \in Listeners |-> "none"]
    /\ lnext = [l \in Listeners |-> 0]
    /\ lstart = [l \in Listeners |-> 0]
    /\ lbody = [l \in Listeners |-> <<>>]

\* an empty configuration that nothing loads
NoBoot ==
    /\ config = [source |-> {}, stream |-> <<>>]
    /\ boot = "none"
    /\ loadResult = [result |-> "none", stream_name |-> 0, source_name |-> 0]
    /\ sourceSet = {}
    /\ streamSet = <<>>
    /\ public_routes = <<>>

\* no thread is at the write lock of txs
NoLock ==
    /\ lock = "free"
    /\ ppc = "idle"
    /\ pidx = 0
    /\ pdead = <<>>
    /\ spc = [c \in Chans |-> "none"]
    /\ sbegan = [c \in Chans |-> 0]
    /\ sret = [c \in Chans |-> 0]
    /\ offered = [c \in Chans |-> {}]

\* the live_channel alone: the rendezvous and the source stay as constructed
InitFanout ==
    /\ live_channel
    /\ rendezvous
    /\ wpc = "idle"
    /\ now = 0
    /\ offline = "Inactive"
    /\ NoRequests
    /\ NoRun
    /\ broadcast_channel
    /\ NoBoot
    /\ NoLock

\* elements of a sequence
Range(s) == {s[i] : i \in 1..Len(s)}

\* the Sender end of channel c is alive iff it is held in txs
SenderAlive(c) == txsSome /\ c \in Range(txs)

\* try_send as a publisher that treats a full queue like a dead receiver
\* would see it (a slow subscriber is evicted instead of skipped)
try_send_FullIsDead(c) ==
    IF ~rxAlive[c] \/ Len(queue[c]) >= BUFFER_SIZE THEN "Disconnected"
    ELSE "Ok"

\* crossbeam Sender::try_send on channel c: "Ok" | "Full" | "Disconnected"
\* (the array flavor reports a disconnected channel before a full one)
try_send(c) ==
    IF ~rxAlive[c] THEN "Disconnected"
    ELSE IF Len(queue[c]) >= BUFFER_SIZE THEN "Full"
    ELSE "Ok"

\* the first loop of publish: the indices (0-based, ascending) of the
\* senders whose try_send reported Disconnected
dead_txs(v) == [j \in 1..Cardinality({i \in 1..Len(v) : try_send(v[i]) = "Disconnected"}) |->
                  CHOOSE i \in 1..Len(v) :
                     /\ try_send(v[i]) = "Disconnected"
                     /\ Cardinality({k \in 1..(i-1) : try_send(v[k]) = "Disconnected"}) = j - 1]

\* Vec::swap_remove(index) with a 1-based index i <= Len(v): the element at i
\* is replaced by the last element and the vector shrinks by one
swap_remove(v, i) ==
    IF i = Len(v) THEN SubSeq(v, 1, Len(v) - 1)
    ELSE [SubSeq(v, 1, Len(v) - 1) EXCEPT ![i] = v[Len(v)]]

\* the second loop of publish: swap_remove each recorded index in turn.
\* An index past the end makes swap_remove panic: the result keeps what the
\* vector was at that moment.
RECURSIVE RemoveDead(_, _)
RemoveDead(v, dead) ==
    IF dead = <<>> THEN [vec |-> v, panic |-> FALSE]
    ELSE IF Head(dead) > Len(v) THEN [vec |-> v, panic |-> TRUE]
    ELSE RemoveDead(swap_remove(v, Head(dead)), Tail(dead))

\* publish over unbounded channels that hands the newest item out first:
\* every live subscriber gets data in front of what is still queued for it
publish_NewestFirst(data) ==
    /\ pubState = "alive"
    /\ txsSome
    /\ Len(published) < MaxPublish
    /\ queue' = [c \in Chans |->
                   IF c \in Range(txs) /\ rxAlive[c]
                   THEN <<data>> \o queue[c] ELSE queue[c]]
    /\ txs' = SelectSeq(txs, LAMBDA c : rxAlive[c])
    /\ lastPub' = "returned"
    /\ published' = Append(published, data)
    /\ UNCHANGED <<txsSome, pubState, rxAlive, received, closedSeen, nsubs, lastSub>>
    /\ UNCHANGED <<rvVars, srcVars, runVars, outVars, cfgVars, lockVars>>

\* LivePublisher::publish(data), under the write lock on txs
publish(data) ==
    /\ pubState = "alive"
    /\ txsSome
    /\ Len(published) < MaxPublish
    /\ LET r == RemoveDead(txs, dead_txs(txs)) IN
       /\ queue' = [c \in Chans |->
                      IF c \in Range(txs) /\ try_send(c) = "Ok"
                      THEN Append(queue[c], data) ELSE queue[c]]
       /\ txs' = r.vec
       \* a panic poisons the lock; unwinding then drops the LivePublisher,
       \* whose Drop panics on the poisoned lock: the process aborts
       /\ pubState' = IF r.panic THEN "panicked" ELSE "alive"
       /\ lastPub' = IF r.panic THEN "panicked" ELSE "returned"
    /\ published' = Append(published, data)
    /\ UNCHANGED <<txsSome, rxAlive, received, closedSeen, nsubs, lastSub>>
    /\ UNCHANGED <<rvVars, srcVars, runVars, outVars, cfgVars, lockVars>>

\* the publisher publishes the items 1, 2, 3, ... in turn
Publish == publish(Len(published) + 1)

\* LiveSubscriber::subscribe(): a fresh bounded(BUFFER_SIZE) channel whose
\* Sender is pushed onto txs; with txs = None both ends are dropped again
Subscribe ==
    /\ pubState # "panicked"
    /\ nsubs < MaxSubs
    /\ nsubs' = nsubs + 1
    /\ IF ~txsSome
       THEN /\ lastSub' = "NoPublisher"
            /\ UNCHANGED <<txs, rxAlive>>
       ELSE /\ lastSub' = "Ok"
            /\ txs' = Append(txs, nsubs + 1)
            /\ rxAlive' = [rxAlive EXCEPT ![nsubs + 1] = TRUE]
    /\ UNCHANGED <<txsSome, queue, received, closedSeen, published, pubState, lastPub>>
    /\ UNCHANGED <<rvVars, srcVars, runVars, outVars, cfgVars, lockVars>>

\* crossbeam Receiver::recv on channel c: the oldest queued item if there is
\* one, Err once the queue is empty and the Sender is gone, else it blocks
Recv(c) ==
    /\ pubState # "panicked"
    /\ rxAlive[c]
    /\ IF queue[c] # <<>>
       THEN /\ received' = [received EXCEPT ![c] = Append(@, Head(queue[c]))]
            /\ queue' = [queue EXCEPT ![c] = Tail(@)]
            /\ UNCHANGED closedSeen
       ELSE /\ ~SenderAlive(c)
            /\ closedSeen' = [closedSeen EXCEPT ![c] = TRUE]
            /\ UNCHANGED <<queue, received>>
    /\ UNCHANGED <<txsSome, txs, rxAlive, published, pubState, nsubs, lastSub, lastPub>>
    /\ UNCHANGED <<rvVars, srcVars, runVars, outVars, cfgVars, lockVars>>

\* the subscriber drops its Receiver; what was still queued for it is
\* discarded with it, and the subscriber's history ends with the subscriber
DropReceiver(c) ==
    /\ pubState # "panicked"
    /\ rxAlive[c]
    /\ rxAlive' = [rxAlive EXCEPT ![c] = FALSE]
    /\ queue' = [queue EXCEPT ![c] = <<>>]
    /\ received' = [received EXCEPT ![c] = <<>>]
    /\ closedSeen' = [closedSeen EXCEPT ![c] = FALSE]
    /\ UNCHANGED <<txsSome, txs, published, pubState, nsubs, lastSub, lastPub>>
    /\ UNCHANGED <<rvVars, srcVars, runVars, outVars, cfgVars, lockVars>>

\* a Drop that empties the vector but leaves txs = Some(_)
DropPublisher_ClearOnly ==
    /\ pubState = "alive"
    /\ txsSome' = TRUE
    /\ txs' = <<>>
    /\ pubState' = "dropped"
    /\ UNCHANGED <<queue, rxAlive, received, closedSeen, published, nsubs,
                   lastSub, lastPub>>
    /\ UNCHANGED <<rvVars, srcVars, runVars, outVars, cfgVars, lockVars>>

\* Drop for LivePublisher: txs = None, which drops every Sender
DropPublisher ==
    /\ pubState = "alive"
    /\ txsSome' = FALSE
    /\ txs' = <<>>
    /\ pubState' = "dropped"
    /\ UNCHANGED <<queue, rxAlive, received, closedSeen, published, nsubs,
                   lastSub, lastPub>>
    /\ UNCHANGED <<rvVars, srcVars, runVars, outVars, cfgVars, lockVars>>

NextFanout ==
    \/ Publish
    \/ Subscribe
    \/ \E c \in Chans : Recv(c)
    \/ \E c \in Chans : DropReceiver(c)
    \/ DropPublisher

SpecFanout == InitFanout /\ [][NextFanout]_vars

(***************************************************************************)
(*          fanout.rs: publish and subscribe, step by step                 *)
(* The publisher thread and the subscribing threads as they run            *)
(* concurrently: each call first waits for the write lock of txs; publish  *)
(* holds it over both of its loops, one try_send and one swap_remove at a  *)
(* time, while receivers go on receiving and dropping (they need no lock); *)
(* subscribe holds it for its push.                                        *)
(***************************************************************************)
\* the subscribe calls made while the publisher publishes, by the channel
\* each makes
Subscribers == {1, 2, 3}

\* a write lock that is granted while another thread holds the lock
write_GrantedWhileHeld(l) == l # "poisoned"

\* RwLock::write(): granted when no thread holds the lock
write(l) == l = "free"

\* the publish calls that have returned (or panicked): all that have begun
\* but the one in progress
Completed == IF ppc = "idle" THEN Len(published) ELSE Len(published) - 1

\* subscribe is called: bounded(BUFFER_SIZE) makes channel nsubs + 1
SubscribeCall ==
    /\ pubState # "panicked"
    /\ nsubs + 1 \in Subscribers
    /\ nsubs' = nsubs + 1
    /\ spc' = [spc EXCEPT ![nsubs + 1] = "wait"]
    /\ sbegan' = [sbegan EXCEPT ![nsubs + 1] = Completed]
    /\ UNCHANGED <<lock, ppc, pidx, pdead, sret, offered>>
    /\ UNCHANGED <<txsSome, txs, queue, rxAlive, received, closedSeen, published, pubState,
                   lastSub, lastPub>>
    /\ UNCHANGED <<rvVars, srcVars, runVars, outVars, cfgVars>>

\* subscribe: self.chan.txs.write() returns the guard
SubscribeLock(c) ==
    /\ pubState # "panicked"
    /\ spc[c] = "wait"
    /\ write(lock)
    /\ lock' = "sub"
    /\ spc' = [spc EXCEPT ![c] = "locked"]
    /\ UNCHANGED <<ppc, pidx, pdead, sbegan, sret, offered>>
    /\ UNCHANGED <<fanVars, rvVars, srcVars, runVars, outVars, cfgVars>>

\* subscribe: .as_mut().ok_or(NoPublisher)?.push(tx); the guard is dropped
\* and Ok(rx) returned
SubscribePush(c) ==
    /\ pubState # "panicked"
    /\ spc[c] = "locked"
    /\ lock' = IF lock = "sub" THEN "free" ELSE lock
    /\ IF ~txsSome
       THEN /\ lastSub' = "NoPublisher"
            /\ spc' = [spc EXCEPT ![c] = "failed"]
            /\ UNCHANGED <<txs, rxAlive, sret>>
       ELSE /\ lastSub' = "Ok"
            /\ spc' = [spc EXCEPT ![c] = "returned"]
            /\ txs' = Append(txs, c)
            /\ rxAlive' = [rxAlive EXCEPT ![c] = TRUE]
            /\ sret' = [sret EXCEPT ![c] = Len(published)]
    /\ UNCHANGED <<ppc, pidx, pdead, sbegan, offered>>
    /\ UNCHANGED <<txsSome, queue, received, closedSeen, published, pubState, nsubs, lastPub>>
    /\ UNCHANGED <<rvVars, srcVars, runVars, outVars, cfgVars>>

\* publish(data) is called with the next item
PublishCall ==
    /\ pubState = "alive"
    /\ ppc = "idle"
    /\ Len(published) < MaxLockPublish
    /\ published' = Append(published, Len(published) + 1)
    /\ ppc' = "wait"
    /\ UNCHANGED <<lock, pidx, pdead, spc, sbegan, sret, offered>>
    /\ UNCHANGED <<txsSome, txs, queue, rxAlive, received, closedSeen, pubState, nsubs,
                   lastSub, lastPub>>
    /\ UNCHANGED <<rvVars, srcVars, runVars, outVars, cfgVars>>

\* publish: self.chan.txs.write() returns the guard; dead_txs = Vec::new()
PublishLock ==
    /\ ppc = "wait"
    /\ write(lock)
    /\ lock' = "pub"
    /\ ppc' = "send"
    /\ pidx' = 1
    /\ pdead' = <<>>
    /\ UNCHANGED <<spc, sbegan, sret, offered>>
    /\ UNCHANGED <<fanVars, rvVars, srcVars, runVars, outVars, cfgVars>>

\* publish: one turn of the first loop, tx.try_send(data.clone()) on the
\* sender at index pidx; past the end of txs the second loop is entered
PublishSend ==
    /\ ppc = "send"
    /\ IF pidx > Len(txs)
       THEN /\ ppc' = "remove"
            /\ UNCHANGED <<pidx, pdead, queue, offered>>
       ELSE LET c == txs[pidx]
                data == published[Len(published)]
            IN /\ queue' = IF try_send(c) = "Ok"
                           THEN [queue EXCEPT ![c] = Append(@, data)] ELSE queue
               /\ offered' = IF try_send(c) = "Disconnected" THEN offered
                             ELSE [offered EXCEPT ![c] = @ \cup {data}]
               /\ pdead' = IF try_send(c) = "Disconnected" THEN Append(pdead, pidx)
                           ELSE pdead
               /\ pidx' = pidx + 1
               /\ UNCHANGED ppc
    /\ UNCHANGED <<lock, spc, sbegan, sret>>
    /\ UNCHANGED <<txsSome, txs, rxAlive, received, closedSeen, published, pubState, nsubs,
                   lastSub, lastPub>>
    /\ UNCHANGED <<rvVars, srcVars, runVars, outVars, cfgVars>>

\* publish: one turn of the second loop, txs.swap_remove(dead_tx_index),
\* which panics on an index past the end (the lock is poisoned and the
\* process aborts); after the loop the guard is dropped and publish returns
PublishRemove ==
    /\ ppc = "remove"
    /\ IF pdead = <<>>
       THEN /\ ppc' = "idle"
            /\ lock' = IF lock = "pub" THEN "free" ELSE lock
            /\ lastPub' = "returned"
            /\ UNCHANGED <<txs, pdead, pubState>>
       ELSE IF Head(pdead) > Len(txs)
       THEN /\ ppc' = "idle"
            /\ lock' = "poisoned"
            /\ lastPub' = "panicked"
            /\ pubState' = "panicked"
            /\ UNCHANGED <<txs, pdead>>
       ELSE /\ txs' = swap_remove(txs, Head(pdead))
            /\ pdead' = Tail(pdead)
            /\ UNCHANGED <<ppc, lock, lastPub, pubState>>
    /\ UNCHANGED <<pidx, spc, sbegan, sret, offered>>
    /\ UNCHANGED <<txsSome, queue, rxAlive, received, closedSeen, published, nsubs, lastSub>>
    /\ UNCHANGED <<rvVars, srcVars, runVars, outVars, cfgVars>>

\* Drop for LivePublisher, by the publisher's thread between two publish
\* calls: the write lock is taken for the assignment of None
LockedDropPublisher ==
    /\ ppc = "idle"
    /\ write(lock)
    /\ DropPublisher

InitLock == InitFanout

NextLock ==
    \/ SubscribeCall
    \/ \E c \in Chans : SubscribeLock(c)
    \/ \E c \in Chans : SubscribePush(c)
    \/ PublishCall
    \/ PublishLock
    \/ PublishSend
    \/ PublishRemove
    \/ \E c \in Chans : Recv(c)
    \/ \E c \in Chans : DropReceiver(c)
    \/ LockedDropPublisher

SpecLock == InitLock /\ [][NextLock]_vars

(***************************************************************************)
(*                               sync.rs                                   *)
(***************************************************************************)
\* send on thread t returns r
SendReturns(t, r) == lastSend' = <<t, r, 1 - lastSend[3]>>

\* a swap that only reads the flag: the slot is never taken
send_swap_LoadOnly(t, busyPc) ==
    /\ tpc[t] = "idle"
    /\ ready' = ready
    /\ tpc' = [tpc EXCEPT ![t] = IF ready THEN "sending" ELSE busyPc]
    /\ IF ready THEN UNCHANGED lastSend ELSE SendReturns(t, "Busy")

\* RendezvousSender::send, up to the channel send: ready.swap(false); if it
\* was false already send returns Err(Busy) (the thread goes on at busyPc),
\* otherwise the thread enters self.send.send(value) on the sync_channel(0)
\* and blocks there until the receiver takes the value
send_swap(t, busyPc) ==
    /\ tpc[t] = "idle"
    /\ ready' = FALSE
    /\ tpc' = [tpc EXCEPT ![t] = IF ready THEN "sending" ELSE busyPc]
    /\ IF ready THEN UNCHANGED lastSend ELSE SendReturns(t, "Busy")

\* RendezvousSender::send, Ok(()) => Ok(()): the receiver has taken the value
send_ok(t, okPc) ==
    /\ tpc[t] = "taken"
    /\ tpc' = [tpc EXCEPT ![t] = okPc]
    /\ SendReturns(t, "Ok")
    /\ UNCHANGED ready

\* the Err arm of send without the restoring store
send_err_NoRestore(t) ==
    /\ tpc[t] = "sending"
    /\ ~recvAlive
    /\ UNCHANGED ready
    /\ tpc' = [tpc EXCEPT ![t] = "idle"]
    /\ SendReturns(t, "Disconnected")

\* RendezvousSender::send, Err(_): the receiver is gone; ready is restored
\* to true and send returns Err(Disconnected)
send_err(t) ==
    /\ tpc[t] = "sending"
    /\ ~recvAlive
    /\ ready' = TRUE
    /\ tpc' = [tpc EXCEPT ![t] = "idle"]
    /\ SendReturns(t, "Disconnected")

\* a receive that re-opens the slot as soon as the handoff completes
take_ReopensSlot(t) ==
    /\ tpc[t] = "sending"
    /\ recvAlive
    /\ owner = 0
    /\ tpc' = [tpc EXCEPT ![t] = "taken"]
    /\ owner' = t
    /\ ready' = TRUE

\* RendezvousReceiver::recv / recv_deadline, Ok(value): the value of the
\* waiting sender t is taken and wrapped in a RendezvousHandle
take(t) ==
    /\ tpc[t] = "sending"
    /\ recvAlive
    /\ owner = 0
    /\ tpc' = [tpc EXCEPT ![t] = "taken"]
    /\ owner' = t
    /\ UNCHANGED ready

\* a handle whose Drop does not store
drop_handle_NoStore ==
    /\ owner # 0
    /\ owner' = 0
    /\ UNCHANGED ready

\* Drop for RendezvousHandle: ready.store(true)
drop_handle ==
    /\ owner # 0
    /\ owner' = 0
    /\ ready' = TRUE

\* RendezvousReceiver::recv_deadline(deadline): "Timeout" at once when
\* now <= deadline; otherwise recv_timeout(deadline - now), where the
\* subtraction saturates to a zero timeout: "Ok" if a sender is waiting,
\* else "Timeout"
recv_deadline(deadline) ==
    IF now <= deadline THEN "Timeout"
    ELSE IF \E t \in Threads : tpc[t] = "sending" THEN "Ok"
    ELSE "Timeout"

\* the clock advances
Tick ==
    /\ now < MaxTime
    /\ now' = now + 1
    /\ UNCHANGED <<ready, recvAlive, tpc, owner, wpc, lastSend>>
    /\ UNCHANGED <<fanVars, srcVars, runVars, outVars, cfgVars, lockVars>>

(***************************************************************************)
(* The rendezvous channel on its own: MaxThreads threads call send, one    *)
(* thread owns the receiver and calls recv or recv_deadline, drops the     *)
(* handle it got, and may drop the receiver.                               *)
(*   wpc: "idle" (no handle) | "holding" (a handle is live) | "dropped"    *)
(***************************************************************************)
InitRendezvous ==
    /\ live_channel
    /\ rendezvous
    /\ wpc = "idle"
    /\ now = 0
    /\ offline = "Inactive"
    /\ NoRequests
    /\ NoRun
    /\ broadcast_channel
    /\ NoBoot
    /\ NoLock

RvSend(t) ==
    /\ send_swap(t, "idle")
    /\ UNCHANGED <<recvAlive, owner, wpc, now>>
    /\ UNCHANGED <<fanVars, srcVars, runVars, outVars, cfgVars, lockVars>>

RvSendOk(t) ==
    /\ send_ok(t, "idle")
    /\ UNCHANGED <<recvAlive, owner, wpc, now>>
    /\ UNCHANGED <<fanVars, srcVars, runVars, outVars, cfgVars, lockVars>>

RvSendErr(t) ==
    /\ send_err(t)
    /\ UNCHANGED <<recvAlive, owner, wpc, now>>
    /\ UNCHANGED <<fanVars, srcVars, runVars, outVars, cfgVars, lockVars>>

\* recv(): blocks until a sender hands a value over
RvRecv ==
    /\ wpc = "idle"
    /\ \E t \in Threads : take(t)
    /\ wpc' = "holding"
    /\ UNCHANGED <<recvAlive, lastSend, now>>
    /\ UNCHANGED <<fanVars, srcVars, runVars, outVars, cfgVars, lockVars>>

\* recv_deadline(d) returning a handle; when it returns Timeout nothing changes
RvRecvDeadline(d) ==
    /\ wpc = "idle"
    /\ recv_deadline(d) = "Ok"
    /\ \E t \in Threads : take(t)
    /\ wpc' = "holding"
    /\ UNCHANGED <<recvAlive, lastSend, now>>
    /\ UNCHANGED <<fanVars, srcVars, runVars, outVars, cfgVars, lockVars>>

\* the receiving thread drops the handle
RvDropHandle ==
    /\ wpc = "holding"
    /\ drop_handle
    /\ wpc' = "idle"
    /\ UNCHANGED <<recvAlive, tpc, lastSend, now>>
    /\ UNCHANGED <<fanVars, srcVars, runVars, outVars, cfgVars, lockVars>>

\* the receiving thread drops the RendezvousReceiver (a handle borrows the
\* receiver, so none is live)
RvDropReceiver ==
    /\ wpc = "idle"
    /\ recvAlive' = FALSE
    /\ wpc' = "dropped"
    /\ UNCHANGED <<ready, tpc, owner, lastSend, now>>
    /\ UNCHANGED <<fanVars, srcVars, runVars, outVars, cfgVars, lockVars>>

NextRendezvous ==
    \/ \E t \in Threads : RvSend(t)
    \/ \E t \in Threads : RvSendOk(t)
    \/ \E t \in Threads : RvSendErr(t)
    \/ RvRecv
    \/ \E d \in 0..MaxTime : RvRecvDeadline(d)
    \/ RvDropHandle
    \/ RvDropReceiver
    \/ Tick

SpecRendezvous == InitRendezvous /\ [][NextRendezvous]_vars

(***************************************************************************)
(*                    source.rs and server/control.rs                      *)
(* One configured source ("foo"): its worker thread (source_thread_main)   *)
(* owns the RendezvousReceiver; MaxThreads control-endpoint threads run    *)
(* dispatch.                                                               *)
(*   tpc[t]: "idle"     no request in progress on thread t                 *)
(*           "sending"  in connect_source, blocked in the rendezvous send  *)
(*           "taken"    the worker took the NewSource; send returns Ok     *)
(*           "reserved" connect_source returned Ok(StartSource)            *)
(*           "starting" decoder built; blocked in StartSource::start       *)
(*   wpc:    "silence_epoch" | "silence_timer" (offline = Silence)         *)
(*           "recv" (offline = Inactive, blocked in command.recv())        *)
(*           "incoming" (in incoming_source, blocked in new_source.rx.recv)*)
(*           "session"  (in run_source)                                    *)
(*           "dead"     (the thread panicked and unwound)                  *)
(***************************************************************************)
Methods == {"SOURCE", "PUT", "POST"}
\* the request url: /source/foo, /source/<unknown name>, /source/<bytes that
\* are not UTF-8 once percent-decoded>, any path not under /source/
Urls == {"/source/foo", "/source/nope", "/source/%FF", "/other"}
\* the Content-Type header value as its parts between ';' (<<>>: the request
\* has no such header)
ContentTypes == {<<"audio/mpeg">>, <<"audio/mp3">>, <<"audio/ogg">>, <<"application/ogg">>,
                 <<"audio/mpeg", "charset=utf-8">>, <<"text/plain">>,
                 <<"text/plain", "audio/mpeg">>, <<>>}

NoReq == [method |-> "none", media |-> "none", decoder |-> "none"]

\* dispatch: url.starts_with("/source/")
starts_with_source(u) == u # "/other"

\* a method match whose catch-all arm treats the request as a PUT
source_kind_AnyMethodIsPut(m) ==
    IF m = "SOURCE" THEN "IcecastLegacy" ELSE "Icecast24Put"

\* dispatch: the match on req.method()
source_kind(m) ==
    IF m = "SOURCE" THEN "IcecastLegacy"
    ELSE IF m = "PUT" THEN "Icecast24Put"
    ELSE "none"

\* dispatch: percent_decode(&url["/source/".len()..]).decode_utf8()
source_name(u) ==
    IF u = "/source/foo" THEN "foo"
    ELSE IF u = "/source/nope" THEN "nope"
    ELSE "Err"

\* a Content-Type taken from the last ';'-separated part instead of the first
content_type_LastPart(h) == IF h = <<>> THEN "none" ELSE h[Len(h)]

\* dispatch: get_header(&req, "Content-Type").and_then(|val| val.split(';').nth(0))
content_type(h) == IF h = <<>> THEN "none" ELSE h[1]

\* dispatch: the match on content_type
media_type(ct) ==
    IF ct \in {"audio/mpeg", "audio/mp3"} THEN "Mp3"
    ELSE IF ct \in {"audio/ogg", "application/ogg"} THEN "Ogg"
    ELSE "none"

\* a lookup that finds a source under every name
sources_get_AnyName(name) == TRUE

\* connect_source: self.sources.get(name) is Some
sources_get(name) == name = "foo"

\* a connect_source that hands out a StartSource even when send reports Busy
connect_source_BusyIsOk(r) ==
    IF r = "Disconnected" THEN "panic" ELSE "Ok"

\* SourceSet::connect_source: the match on source.command.send(..)
connect_source(r) ==
    IF r = "Ok" THEN "Ok"
    ELSE IF r = "Busy" THEN "AlreadyConnected"
    ELSE "panic"

\* both connect_source errors answered like NoSuchSource
connect_status_AlwaysNotFound(e) == "404"

\* dispatch: the response to Err(e) of connect_source
connect_status(e) ==
    IF e = "NoSuchSource" THEN "404" ELSE "409"

\* dispatch answers the request for url u on thread t with an HTTP status
Respond(t, code, u) == lastResp' = <<t, code, u>>

\* a silence loop that keeps its old epoch after a session
Offline_NoFreshEpoch(from) ==
    IF offline = "Inactive" THEN "recv" ELSE "silence_timer"

\* source_thread_main: where the worker waits when no session is live
Offline(from) ==
    IF offline = "Inactive" THEN "recv"
    ELSE IF from = "session" THEN "silence_epoch" ELSE "silence_timer"

Init ==
    /\ live_channel
    /\ rendezvous
    /\ now = 0
    /\ offline \in {"Inactive", "Silence"}
    /\ wpc = IF offline = "Silence" THEN "silence_epoch" ELSE "recv"
    /\ NoRequests
    /\ NoRun
    /\ broadcast_channel
    /\ NoBoot
    /\ NoLock

\* dispatch returns after answering with code; no source is touched
Reject(t, code, u) ==
    /\ Respond(t, code, u)
    /\ UNCHANGED <<ready, tpc, lastSend, req, liveCount>>

\* control::dispatch on thread t, from the request to the rendezvous swap
\* inside connect_source (or to the response that rejects the request)
Dispatch(t, m, u, h) ==
    /\ tpc[t] = "idle"
    /\ IF ~starts_with_source(u) THEN
          Reject(t, "404", u)
       ELSE IF source_kind(m) = "none" THEN
          Reject(t, "405", u)
       ELSE IF source_name(u) = "Err" THEN
          Reject(t, "404", u)
       ELSE IF media_type(content_type(h)) = "none" THEN
          Reject(t, "415", u)
       ELSE IF ~sources_get(source_name(u)) THEN
          Reject(t, connect_status("NoSuchSource"), u)
       ELSE
          \* connect_source: source.command.send(NewSource { .. })
          LET busy == connect_source("Busy") IN
          /\ send_swap(t, IF busy = "Ok" THEN "reserved" ELSE "idle")
          /\ IF ready \/ busy = "Ok"
             THEN /\ req' = [req EXCEPT ![t] = [method |-> m,
                                                media |-> media_type(content_type(h)),
                                                decoder |-> "none"]]
                  /\ UNCHANGED lastResp
             ELSE /\ Respond(t, connect_status(busy), u)
                  /\ UNCHANGED req
          /\ liveCount' = IF ~ready /\ busy = "Ok" THEN liveCount + 1 ELSE liveCount
    /\ UNCHANGED <<recvAlive, owner, wpc, now, offline, epoch, duration, txDropped, silences>>
    /\ UNCHANGED <<fanVars, runVars, outVars, cfgVars, lockVars>>

\* connect_source returns Ok(StartSource { send: tx }) on thread t
ConnectOk(t) ==
    /\ connect_source("Ok") = "Ok"
    /\ send_ok(t, "reserved")
    /\ liveCount' = liveCount + 1
    /\ UNCHANGED <<recvAlive, owner, wpc, now, offline, epoch, duration, req, txDropped,
                   lastResp, silences>>
    /\ UNCHANGED <<fanVars, runVars, outVars, cfgVars, lockVars>>

\* a dispatch that goes on to StartSource::start whatever init_decoder
\* returned
InitDecoder_StartsWithoutDecoder(t, ok) ==
    /\ tpc[t] = "reserved"
    /\ req[t].media = "Mp3" => ok
    /\ IF req[t].method = "SOURCE" THEN Respond(t, "200", "/source/foo") ELSE UNCHANGED lastResp
    /\ tpc' = [tpc EXCEPT ![t] = "starting"]
    /\ req' = [req EXCEPT ![t].decoder = IF ok THEN "Ok" ELSE "Err"]
    /\ UNCHANGED txDropped
    /\ UNCHANGED <<ready, recvAlive, owner, wpc, lastSend, now, offline, epoch, duration,
                   liveCount, silences>>
    /\ UNCHANGED <<fanVars, runVars, outVars, cfgVars, lockVars>>

\* dispatch after the reservation: the body reader is acquired (SOURCE: the
\* connection is upgraded with a 200 response; PUT: the request body) and
\* init_decoder reads from it. Mp3::new cannot fail, Ogg::new can. On Ok the
\* thread enters StartSource::start; on Err dispatch returns, dropping the
\* StartSource without start
InitDecoder(t, ok) ==
    /\ tpc[t] = "reserved"
    /\ req[t].media = "Mp3" => ok
    /\ IF req[t].method = "SOURCE" THEN Respond(t, "200", "/source/foo") ELSE UNCHANGED lastResp
    /\ IF ok
       THEN /\ tpc' = [tpc EXCEPT ![t] = "starting"]
            /\ req' = [req EXCEPT ![t].decoder = "Ok"]
            /\ UNCHANGED txDropped
       ELSE /\ tpc' = [tpc EXCEPT ![t] = "idle"]
            /\ req' = [req EXCEPT ![t] = NoReq]
            /\ txDropped' = TRUE
    /\ UNCHANGED <<ready, recvAlive, owner, wpc, lastSend, now, offline, epoch, duration,
                   liveCount, silences>>
    /\ UNCHANGED <<fanVars, runVars, outVars, cfgVars, lockVars>>

\* source_thread_main, Inactive: source.command.recv() returns a handle
WorkerRecv ==
    /\ wpc = "recv"
    /\ \E t \in Threads : take(t)
    /\ wpc' = "incoming"
    /\ UNCHANGED <<recvAlive, lastSend, now>>
    /\ UNCHANGED <<fanVars, srcVars, runVars, outVars, cfgVars, lockVars>>

\* a silence loop that takes a fresh epoch but goes on from the duration
\* accumulated before
SilenceEpoch_KeepsDuration ==
    /\ wpc = "silence_epoch"
    /\ epoch' = now
    /\ silences' = 0
    /\ wpc' = "silence_timer"
    /\ UNCHANGED <<ready, recvAlive, tpc, owner, lastSend, now, offline, req, txDropped,
                   lastResp, liveCount, duration>>
    /\ UNCHANGED <<fanVars, runVars, outVars, cfgVars, lockVars>>

\* source_thread_main, Silence: let epoch = Instant::now(); duration = 0
SilenceEpoch ==
    /\ wpc = "silence_epoch"
    /\ epoch' = now
    /\ duration' = 0
    /\ silences' = 0
    /\ wpc' = "silence_timer"
    /\ UNCHANGED <<ready, recvAlive, tpc, owner, lastSend, now, offline, req, txDropped,
                   lastResp, liveCount>>
    /\ UNCHANGED <<fanVars, runVars, outVars, cfgVars, lockVars>>

\* source_thread_main, Silence: one turn of 'silence_timer:
\* duration += silence_duration; recv_deadline(epoch + duration); on Timeout
\* one silence frame is published, on Ok(cmd) incoming_source is entered.
\* (Once the deadline lies past MaxTime it stays ahead of the clock for good
\* and duration is not counted further.)
SilenceTimer ==
    /\ wpc = "silence_timer"
    /\ duration' = IF epoch + duration > MaxTime THEN duration ELSE duration + BufferTicks
    /\ IF recv_deadline(epoch + duration + BufferTicks) = "Ok"
       THEN /\ \E t \in Threads : take(t)
            /\ wpc' = "incoming"
            /\ UNCHANGED silences
       ELSE /\ silences' = IF silences < MaxSilences THEN silences + 1 ELSE silences
            /\ UNCHANGED <<ready, tpc, owner, wpc>>
    /\ UNCHANGED <<recvAlive, lastSend, now, offline, epoch, req, txDropped, lastResp,
                   liveCount>>
    /\ UNCHANGED <<fanVars, runVars, outVars, cfgVars, lockVars>>

\* incoming_source: new_source.rx.recv() returns Ok(io), the decoder that
\* StartSource::start sent; start returns Ok and dispatch returns
IncomingStart ==
    /\ wpc = "incoming"
    /\ owner # 0
    /\ tpc[owner] = "starting"
    /\ tpc' = [tpc EXCEPT ![owner] = "idle"]
    /\ req' = [req EXCEPT ![owner] = NoReq]
    /\ wpc' = "session"
    /\ UNCHANGED <<ready, recvAlive, owner, lastSend, now, offline, epoch, duration,
                   txDropped, lastResp, liveCount, silences>>
    /\ UNCHANGED <<fanVars, runVars, outVars, cfgVars, lockVars>>

\* an abandoned reservation after which the worker goes on waiting with the
\* handle still held
IncomingAbandoned_KeepsHandle ==
    /\ wpc = "incoming"
    /\ txDropped
    /\ txDropped' = FALSE
    /\ wpc' = Offline("incoming")
    /\ UNCHANGED <<ready, owner, liveCount>>
    /\ UNCHANGED <<recvAlive, tpc, lastSend, now, offline, epoch, duration, req, lastResp,
                   silences>>
    /\ UNCHANGED <<fanVars, runVars, outVars, cfgVars, lockVars>>

\* incoming_source: new_source.rx.recv() returns Err (the StartSource was
\* dropped): Err(()) is returned, the handle is dropped and the worker goes
\* on waiting (Silence: the next turn of 'silence_timer, epoch kept)
IncomingAbandoned ==
    /\ wpc = "incoming"
    /\ txDropped
    /\ txDropped' = FALSE
    /\ drop_handle
    /\ liveCount' = liveCount - 1
    /\ wpc' = Offline("incoming")
    /\ UNCHANGED <<recvAlive, tpc, lastSend, now, offline, epoch, duration, req, lastResp,
                   silences>>
    /\ UNCHANGED <<fanVars, runVars, outVars, cfgVars, lockVars>>

\* run_source: one io.read(). A frame or skipped data keeps the session
\* going; Eof and an I/O error end it: incoming_source returns Ok(()), the
\* handle is dropped and the worker is offline again (Silence: a new epoch)
SessionRead(r) ==
    /\ wpc = "session"
    /\ IF r \in {"Eof", "Io"}
       THEN /\ drop_handle
            /\ liveCount' = liveCount - 1
            /\ wpc' = Offline("session")
       ELSE UNCHANGED <<ready, owner, liveCount, wpc>>
    /\ UNCHANGED <<recvAlive, tpc, lastSend, now, offline, epoch, duration, req, txDropped,
                   lastResp, silences>>
    /\ UNCHANGED <<fanVars, runVars, outVars, cfgVars, lockVars>>

\* run_source: io.read() panics inside the decoder (Mp3::read asserts
\* frame.sample_rate == 44100). The worker thread unwinds: the handle is
\* dropped, then the SourceThreadContext with the RendezvousReceiver
SessionPanics ==
    /\ wpc = "session"
    /\ drop_handle
    /\ liveCount' = liveCount - 1
    /\ recvAlive' = FALSE
    /\ wpc' = "dead"
    /\ UNCHANGED <<tpc, lastSend, now, offline, epoch, duration, req, txDropped, lastResp,
                   silences>>
    /\ UNCHANGED <<fanVars, runVars, outVars, cfgVars, lockVars>>

\* connect_source: the send finds the receiver gone and returns
\* Err(SendError::Disconnected); connect_source panics on thread t
ConnectDisconnected(t) ==
    /\ send_err(t)
    /\ req' = [req EXCEPT ![t] = NoReq]
    /\ Respond(t, "panic", "/source/foo")
    /\ UNCHANGED <<recvAlive, owner, wpc, now, offline, epoch, duration, txDropped,
                   liveCount, silences>>
    /\ UNCHANGED <<fanVars, runVars, outVars, cfgVars, lockVars>>

\* Beside the worker's clock and silence loop the requests name the source
\* or an unknown one and carry one header of each kind (MP3, Ogg,
\* unsupported, absent); SpecControl explores every url and header
Next ==
    \/ \E t \in Threads, m \in Methods, u \in {"/source/foo", "/source/nope"},
          h \in {<<"audio/mpeg">>, <<"audio/ogg">>, <<"text/plain">>, <<>>} : Dispatch(t, m, u, h)
    \/ \E t \in Threads : ConnectOk(t)
    \/ \E t \in Threads, ok \in BOOLEAN : InitDecoder(t, ok)
    \/ WorkerRecv
    \/ SilenceEpoch
    \/ SilenceTimer
    \/ IncomingStart
    \/ IncomingAbandoned
    \/ \E r \in {"Frame", "SkippedData", "Eof", "Io"} : SessionRead(r)
    \/ SessionPanics
    \/ \E t \in Threads : ConnectDisconnected(t)
    \/ Tick

Spec == Init /\ [][Next]_vars

\* The same system under the scheduling the threads get from the operating
\* system: the worker thread and every control thread that can take its next
\* step eventually takes it, and the clock advances. Nothing forces a request
\* to arrive or a session to end.
SpecFair ==
    /\ Spec
    /\ WF_vars(WorkerRecv)
    /\ WF_vars(SilenceEpoch)
    /\ WF_vars(SilenceTimer)
    /\ WF_vars(IncomingStart)
    /\ WF_vars(IncomingAbandoned)
    /\ WF_vars(Tick)
    /\ \A t \in Threads : WF_vars(ConnectOk(t))
    /\ \A t \in Threads : WF_vars(\E ok \in BOOLEAN : InitDecoder(t, ok))

\* The control endpoint in front of a source whose worker idles when offline
\* (offline = Inactive) and whose decoders do not panic: the requests, the
\* reservation and the sessions, with no clock and no silence loop.
InitControl ==
    /\ Init
    /\ offline = "Inactive"

NextControl ==
    \/ \E t \in Threads, m \in Methods, u \in Urls, h \in ContentTypes : Dispatch(t, m, u, h)
    \/ \E t \in Threads : ConnectOk(t)
    \/ \E t \in Threads, ok \in BOOLEAN : InitDecoder(t, ok)
    \/ WorkerRecv
    \/ IncomingStart
    \/ IncomingAbandoned
    \/ \E r \in {"Frame", "SkippedData", "Eof", "Io"} : SessionRead(r)

SpecControl == InitControl /\ [][NextControl]_vars

(***************************************************************************)
(*                        source.rs: run_source                            *)
(* One call of run_source(source, epoch, io) on the worker thread, with    *)
(* the decoder io as the environment. The session clock counts             *)
(* ticks of 1/MsPerSec second, standing for the nanoseconds of the code's  *)
(* Duration. The code converts elapsed to whole ticks with to_integer(),   *)
(* which truncates; a frame of one sample at rate 3 lasts a third of a     *)
(* second, which is a whole number of ticks in neither unit. The call is   *)
(* made by incoming_source on the worker, which holds the RecvHandle of    *)
(* the session until run_source has returned.                              *)
(*   rpc: "sleep"  at the top of the loop, before sleep_until              *)
(*        "read"   sleep_until returned, io.read() is called next          *)
(*        "drain"  Ok(pcm) was appended to buffer; at the while test       *)
(*        "Ok" | "Err"  run_source returned, incoming_source logs          *)
(*        "returned"    incoming_source returned, the handle is dropped    *)
(***************************************************************************)
\* the values of source.config.buffer_ms explored
BufferMsSet == {250, 500, 1000}
\* the sample rates (samples per second and channel) the decoder reports
SampleRates == {3, 4}
\* the channel counts the decoder reports
ChannelCounts == {1, 2}
\* by how many milliseconds thread::sleep or a blocking io.read() runs late
Delays == {0, 250}

\* a decoded PcmData of k samples per channel; its samples are numbered from
\* first on, so that every decoded sample is distinct
Frame(c, r, k, first) ==
    [channels |-> c, sample_rate |-> r,
     samples |-> [i \in 1..(k * c) |-> first + i - 1]]

\* what io.read() may return as Ok(pcm): a short frame (one sample per
\* channel) or a frame of one second, interleaved (len a multiple of channels)
Frames(first) ==
    UNION {{Frame(c, r, k, first) : k \in {1, r}} :
              c \in ChannelCounts, r \in SampleRates}

\* the samples decoded so far, in decoding order
RECURSIVE Concat(_)
Concat(ps) ==
    IF ps = <<>> THEN <<>> ELSE ps[1].samples \o Concat(Tail(ps))

RECURSIVE Gcd(_, _)
Gcd(a, b) == IF b = 0 THEN a ELSE Gcd(b, a % b)

\* Ratio::new(numer, denom): reduced to lowest terms
RatioNew(numer, denom) ==
    LET g == Gcd(numer, denom) IN <<numer \div g, denom \div g>>

\* Ratio + Ratio
RatioAdd(a, b) == RatioNew(a[1] * b[2] + b[1] * a[2], a[2] * b[2])

\* (elapsed * Ratio::new(1_000_000_000, 1)).to_integer() as a Duration,
\* in milliseconds
elapsed_nanos(e) == (e[1] * MsPerSec) \div e[2]

\* let buffer_samples = source.config.buffer_ms * pcm.sample_rate / 1000
buffer_samples == (buffer_ms * pcm.sample_rate) \div MsPerSec

\* sleep_until that returns at once, whatever the deadline
sleep_until_ReturnsAtOnce(deadline, late) ==
    clock' = clock

\* sleep_until(deadline): sleeps only if deadline > now; thread::sleep sleeps
\* at least the requested time
sleep_until(deadline, late) ==
    clock' = IF deadline > clock THEN deadline + late ELSE clock

\* incoming_source: let epoch = Instant::now(); run_source(source, epoch, io)
InitRun ==
    /\ live_channel
    /\ ready = FALSE
    /\ recvAlive = TRUE
    /\ tpc = [t \in Threads |-> "idle"]
    /\ owner = 1
    /\ lastSend = <<1, "Ok", 1>>
    /\ wpc = "session"
    /\ now = 0
    /\ offline = "Inactive"
    /\ req = [t \in Threads |-> NoReq]
    /\ txDropped = FALSE
    /\ lastResp = <<0, "none", "none">>
    /\ liveCount = 1
    /\ silences = 0
    /\ epoch = 0
    /\ duration = 0
    /\ buffer_ms \in BufferMsSet
    /\ rpc = "sleep"
    /\ clock = 0
    /\ run_epoch = 0
    /\ elapsed = <<0, 1>>
    /\ buffer = <<>>
    /\ pcm = NoPcm
    /\ decoded = <<>>
    /\ batches = <<>>
    /\ lastRead = "none"
    /\ broadcast_channel
    /\ NoBoot
    /\ NoLock

\* run_source: top of the loop, sleep_until(epoch + elapsed)
SleepUntil ==
    /\ rpc = "sleep"
    /\ \E late \in Delays : sleep_until(run_epoch + elapsed_nanos(elapsed), late)
    /\ rpc' = "read"
    /\ UNCHANGED <<buffer_ms, run_epoch, elapsed, buffer, pcm, decoded, batches, lastRead>>
    /\ UNCHANGED <<fanVars, rvVars, srcVars, outVars, cfgVars, lockVars>>

\* run_source: io.read() returns Ok(pcm) after wait milliseconds;
\* buffer.extend(pcm.samples)
ReadOk(f, wait) ==
    /\ rpc = "read"
    /\ Len(decoded) < MaxReads
    /\ clock' = clock + wait
    /\ pcm' = f
    /\ decoded' = Append(decoded, [channels |-> f.channels, sample_rate |-> f.sample_rate,
                                   samples |-> f.samples, began |-> clock, at |-> clock'])
    /\ buffer' = buffer \o f.samples
    /\ rpc' = "drain"
    /\ lastRead' = "Ok"
    /\ UNCHANGED <<buffer_ms, run_epoch, elapsed, batches>>
    /\ UNCHANGED <<fanVars, rvVars, srcVars, outVars, cfgVars, lockVars>>

\* a run_source that returns Ok(()) on SkippedData as it does on Eof
ReadErr_SkippedEndsSession(e) ==
    /\ rpc = "read"
    /\ rpc' = IF e = "Io" THEN "Err" ELSE "Ok"
    /\ lastRead' = e
    /\ UNCHANGED <<buffer_ms, clock, run_epoch, elapsed, buffer, pcm, decoded, batches>>
    /\ UNCHANGED <<fanVars, rvVars, srcVars, outVars, cfgVars, lockVars>>

\* run_source: io.read() returns Err(e) with e one of Eof, SkippedData, Io
ReadErr(e) ==
    /\ rpc = "read"
    /\ rpc' = IF e = "Eof" THEN "Ok" ELSE IF e = "Io" THEN "Err" ELSE "sleep"
    /\ lastRead' = e
    /\ UNCHANGED <<buffer_ms, clock, run_epoch, elapsed, buffer, pcm, decoded, batches>>
    /\ UNCHANGED <<fanVars, rvVars, srcVars, outVars, cfgVars, lockVars>>

\* run_source: io.read() returns Err(MalformedData), which the decoders
\* report for a frame of no channels; ignored like SkippedData, the loop
\* starts over
ReadMalformed ==
    /\ rpc = "read"
    /\ rpc' = "sleep"
    /\ lastRead' = "MalformedData"
    /\ UNCHANGED <<buffer_ms, clock, run_epoch, elapsed, buffer, pcm, decoded, batches>>
    /\ UNCHANGED <<fanVars, rvVars, srcVars, outVars, cfgVars, lockVars>>

\* a loop that detaches the last buffer_samples samples instead of the first
Drain_FromTheEnd ==
    /\ rpc = "drain"
    /\ IF Len(buffer) > buffer_samples
       THEN /\ Len(batches) < MaxBatches
            /\ batches' = Append(batches,
                   [channels |-> pcm.channels, sample_rate |-> pcm.sample_rate,
                    samples |-> SubSeq(buffer, Len(buffer) - buffer_samples + 1, Len(buffer)),
                    at |-> clock])
            /\ buffer' = SubSeq(buffer, 1, Len(buffer) - buffer_samples)
            /\ UNCHANGED <<elapsed, rpc>>
       ELSE /\ elapsed' = RatioAdd(elapsed,
                   RatioNew(Len(pcm.samples) \div pcm.channels, pcm.sample_rate))
            /\ rpc' = "sleep"
            /\ UNCHANGED <<buffer, batches>>
    /\ UNCHANGED <<buffer_ms, clock, run_epoch, pcm, decoded, lastRead>>
    /\ UNCHANGED <<fanVars, rvVars, srcVars, outVars, cfgVars, lockVars>>

\* run_source: one test of `while buffer.len() > buffer_samples`. True: the
\* first buffer_samples samples are drained and published as one PcmData with
\* the channels and sample_rate of pcm. False: elapsed is advanced by the
\* frame's duration and the loop starts over.
Drain ==
    /\ rpc = "drain"
    /\ IF Len(buffer) > buffer_samples
       THEN /\ Len(batches) < MaxBatches
            /\ batches' = Append(batches,
                   [channels |-> pcm.channels, sample_rate |-> pcm.sample_rate,
                    samples |-> SubSeq(buffer, 1, buffer_samples), at |-> clock])
            /\ buffer' = SubSeq(buffer, buffer_samples + 1, Len(buffer))
            /\ UNCHANGED <<elapsed, rpc>>
       ELSE /\ elapsed' = RatioAdd(elapsed,
                   RatioNew(Len(pcm.samples) \div pcm.channels, pcm.sample_rate))
            /\ rpc' = "sleep"
            /\ UNCHANGED <<buffer, batches>>
    /\ UNCHANGED <<buffer_ms, clock, run_epoch, pcm, decoded, lastRead>>
    /\ UNCHANGED <<fanVars, rvVars, srcVars, outVars, cfgVars, lockVars>>

\* incoming_source: run_source returned; the result is logged and the
\* function returns, which drops new_source (the RecvHandle) in thread_main
RunReturns ==
    /\ rpc \in {"Ok", "Err"}
    /\ drop_handle
    /\ liveCount' = liveCount - 1
    /\ wpc' = Offline("session")
    /\ rpc' = "returned"
    /\ UNCHANGED <<recvAlive, tpc, lastSend, now, offline, epoch, duration, req, txDropped,
                   lastResp, silences>>
    /\ UNCHANGED <<buffer_ms, clock, run_epoch, elapsed, buffer, pcm, decoded, batches, lastRead>>
    /\ UNCHANGED <<fanVars, outVars, cfgVars, lockVars>>

\* source_thread_main: the next NewSource is received and its decoder
\* started; incoming_source calls run_source again, whose elapsed and buffer
\* are fresh locals. The histories and the clock start over with the
\* session (the clock is read relative to the session's epoch only).
NextSession ==
    /\ rpc = "returned"
    /\ ready
    /\ ready' = FALSE
    /\ owner' = 1
    /\ liveCount' = liveCount + 1
    /\ wpc' = "session"
    /\ rpc' = "sleep"
    /\ clock' = 0
    /\ run_epoch' = 0
    /\ elapsed' = <<0, 1>>
    /\ buffer' = <<>>
    /\ pcm' = NoPcm
    /\ decoded' = <<>>
    /\ batches' = <<>>
    /\ lastRead' = "none"
    /\ UNCHANGED <<buffer_ms, recvAlive, tpc, lastSend, now, offline, epoch, duration, req,
                   txDropped, lastResp, silences>>
    /\ UNCHANGED <<fanVars, outVars, cfgVars, lockVars>>

NextRun ==
    \/ SleepUntil
    \/ \E f \in Frames(Len(Concat(decoded)) + 1), wait \in Delays : ReadOk(f, wait)
    \/ \E e \in {"Eof", "SkippedData", "Io"} : ReadErr(e)
    \/ ReadMalformed
    \/ Drain
    \/ RunReturns
    \/ NextSession

SpecRun == InitRun /\ [][NextRun]_vars

(***************************************************************************)
(*                     stream.rs / server/public.rs                        *)
(* One stream: its worker encodes the PCM frames of its source and sends   *)
(* every result on a tokio broadcast channel of STREAM_BUFFER_SIZE slots;  *)
(* each listener holds a Receiver of it inside a StreamBody.               *)
(*   A value is [seq, len]: the result of the seq-th encode call, len      *)
(*   bytes long.  The channel keeps the last STREAM_BUFFER_SIZE values     *)
(*   sent; send stores nothing when no Receiver is alive; a Receiver       *)
(*   whose next value was overwritten gets Lagged and is moved to the      *)
(*   oldest value kept; a Receiver that has read everything gets Closed    *)
(*   once every Sender is dropped, and waits otherwise.                    *)
(***************************************************************************)
\* lengths of the buffer codec.encode returns (empty while the codec is
\* still buffering internally)
EncodedLens == {0, 1}

\* the slot of the ring a position falls into
SlotOf(p) == p % STREAM_BUFFER_SIZE

\* every broadcast::Sender is dropped
Closed == outSenders = {}

\* stream.output.send(v), its result ignored: Err (nothing stored) when no
\* Receiver is alive, else v is written over the oldest slot
send(v) ==
    IF rx_cnt = 0
    THEN UNCHANGED <<slots, tail, stored>>
    ELSE /\ slots' = [slots EXCEPT ![SlotOf(tail)] = [pos |-> tail, val |-> v]]
         /\ tail' = tail + 1
         /\ stored' = Append(stored, v)

\* stream_thread_main: one turn of the loop: a PCM frame is received, encoded
\* to n bytes, and the result is sent
StreamEncode(n) ==
    /\ "thread" \in outSenders
    /\ encodes < MaxChunks
    /\ n = 0 => empties < MaxEmpty /\ empties = encodes
    /\ encodes' = encodes + 1
    /\ empties' = IF n = 0 THEN empties + 1 ELSE empties
    /\ send([seq |-> encodes + 1, len |-> n])
    /\ UNCHANGED <<outSenders, rx_cnt, lst, lnext, lstart, lbody>>
    /\ UNCHANGED <<fanVars, rvVars, srcVars, runVars, cfgVars, lockVars>>

\* stream_thread_main: the worker ends by a panic (its input is closed, or
\* the encoder fails) and its Sender is dropped
StreamThreadDies ==
    /\ "thread" \in outSenders
    /\ outSenders' = outSenders \ {"thread"}
    /\ UNCHANGED <<encodes, empties, slots, tail, rx_cnt, stored, lst, lnext, lstart, lbody>>
    /\ UNCHANGED <<fanVars, rvVars, srcVars, runVars, cfgVars, lockVars>>

\* the StreamSet is dropped with the Edicast that owns it
DropStreamSet ==
    /\ "set" \in outSenders
    /\ outSenders' = outSenders \ {"set"}
    /\ UNCHANGED <<encodes, empties, slots, tail, rx_cnt, stored, lst, lnext, lstart, lbody>>
    /\ UNCHANGED <<fanVars, rvVars, srcVars, runVars, cfgVars, lockVars>>

\* public dispatch: subscribe_stream gives a Receiver that starts at the
\* tail, and the response body is a StreamBody around it
ListenerConnect(l) ==
    /\ lst[l] = "none"
    /\ "set" \in outSenders
    /\ lst' = [lst EXCEPT ![l] = "streaming"]
    /\ lnext' = [lnext EXCEPT ![l] = tail]
    /\ lstart' = [lstart EXCEPT ![l] = tail]
    /\ rx_cnt' = rx_cnt + 1
    /\ UNCHANGED <<outSenders, encodes, empties, slots, tail, stored, lbody>>
    /\ UNCHANGED <<fanVars, rvVars, srcVars, runVars, cfgVars, lockVars>>

\* what Receiver::recv gives listener l: "Ok", "Closed", "Lagged", or
\* "Pending" while it has to wait
recv(l) ==
    LET slot == slots[SlotOf(lnext[l])] IN
    IF slot.pos = lnext[l] THEN "Ok"
    ELSE IF lnext[l] = tail THEN (IF Closed THEN "Closed" ELSE "Pending")
    ELSE "Lagged"

\* a poll_frame that goes on with the oldest value kept after a Lagged
poll_frame_LaggedGoesOn(l, r) ==
    CASE r = "Ok" ->
           /\ lbody' = [lbody EXCEPT ![l] = Append(@, slots[SlotOf(lnext[l])].val)]
           /\ lnext' = [lnext EXCEPT ![l] = @ + 1]
           /\ UNCHANGED <<lst, rx_cnt>>
      [] r = "Closed" ->
           /\ lst' = [lst EXCEPT ![l] = "ended"]
           /\ rx_cnt' = rx_cnt - 1
           /\ UNCHANGED <<lnext, lbody>>
      [] r = "Lagged" ->
           /\ lnext' = [lnext EXCEPT ![l] = tail - STREAM_BUFFER_SIZE]
           /\ UNCHANGED <<lst, rx_cnt, lbody>>

\* StreamBody::poll_frame, the recv having given r: Ok(bytes) is a data frame,
\* Closed ends the body (None), Lagged (the Receiver moved to the oldest value
\* kept) ends it with the error ClientLagged; a body that ended is dropped
\* with its Receiver
poll_frame(l, r) ==
    CASE r = "Ok" ->
           /\ lbody' = [lbody EXCEPT ![l] = Append(@, slots[SlotOf(lnext[l])].val)]
           /\ lnext' = [lnext EXCEPT ![l] = @ + 1]
           /\ UNCHANGED <<lst, rx_cnt>>
      [] r = "Closed" ->
           /\ lst' = [lst EXCEPT ![l] = "ended"]
           /\ rx_cnt' = rx_cnt - 1
           /\ UNCHANGED <<lnext, lbody>>
      [] r = "Lagged" ->
           /\ lst' = [lst EXCEPT ![l] = "errored"]
           /\ lnext' = [lnext EXCEPT ![l] = tail - STREAM_BUFFER_SIZE]
           /\ rx_cnt' = rx_cnt - 1
           /\ UNCHANGED lbody

\* the connection of listener l polls its body and the recv is ready
PollFrame(l) ==
    /\ lst[l] = "streaming"
    /\ recv(l) # "Pending"
    /\ poll_frame(l, recv(l))
    /\ UNCHANGED <<outSenders, encodes, empties, slots, tail, stored, lstart>>
    /\ UNCHANGED <<fanVars, rvVars, srcVars, runVars, cfgVars, lockVars>>

\* listener l disconnects: its connection drops the body and the Receiver
ListenerDisconnect(l) ==
    /\ lst[l] = "streaming"
    /\ lst' = [lst EXCEPT ![l] = "gone"]
    /\ rx_cnt' = rx_cnt - 1
    /\ UNCHANGED <<outSenders, encodes, empties, slots, tail, stored, lnext, lstart, lbody>>
    /\ UNCHANGED <<fanVars, rvVars, srcVars, runVars, cfgVars, lockVars>>

InitListen ==
    /\ live_channel
    /\ rendezvous
    /\ wpc = "idle"
    /\ now = 0
    /\ offline = "Inactive"
    /\ NoRequests
    /\ NoRun
    /\ broadcast_channel
    /\ NoBoot
    /\ NoLock

NextListen ==
    \/ \E n \in EncodedLens : StreamEncode(n)
    \/ StreamThreadDies
    \/ DropStreamSet
    \/ \E l \in Listeners : ListenerConnect(l)
    \/ \E l \in Listeners : PollFrame(l)
    \/ \E l \in Listeners : ListenerDisconnect(l)

SpecListen == InitListen /\ [][NextListen]_vars

(***************************************************************************)
(*                         config.rs / server.rs                           *)
(* Start-up: Config::load reads, parses and validates the configuration;   *)
(* Edicast::new starts one worker per source (SourceSet::new), one worker  *)
(* per stream (StreamSet::new) and collects the routing table.             *)
(*   A configuration is [source, stream]: the keys of Config.source and    *)
(*   the map Config.stream from a stream's name to its path and source.    *)
(*   The maps are HashMaps: the order in which their entries are visited   *)
(*   is not determined.                                                    *)
(***************************************************************************)
SourceNames == 1..MaxSources

StreamNames == 1..MaxStreams

Paths == 1..MaxPaths

\* the configurations a file may parse to
Configs ==
    {[source |-> s, stream |-> f] :
        s \in SUBSET SourceNames,
        f \in UNION {[d -> [path : Paths, source : SourceNames]] : d \in SUBSET StreamNames}}

\* restriction of a map to some of its keys
Restrict(f, d) == [n \in d |-> f[n]]

\* Config::load: the streams whose source is no key of Config.source
Invalid(c) == {n \in DOMAIN c.stream : c.stream[n].source \notin c.source}

\* a result of load that names no stream: "none" (not called), "Ok", "Io", "Toml"
Returned(r) == [result |-> r, stream_name |-> 0, source_name |-> 0]

\* a load that validates nothing
load_NoValidation(c, io) == {Returned(io)}

\* Config::load: what load may return for a file that reads and parses as io
\* says ("Io", "Toml", or "Ok" with content c): the error of read_to_string or
\* of from_str, StreamRefersToInvalidSource for the first stream the loop
\* finds with an unknown source, else Ok(config)
load(c, io) ==
    IF io # "Ok" THEN {Returned(io)}
    ELSE IF Invalid(c) # {}
    THEN {[result |-> "StreamRefersToInvalidSource", stream_name |-> n,
           source_name |-> c.stream[n].source] : n \in Invalid(c)}
    ELSE {Returned("Ok")}

\* main: Config::load(&config_path); an error ends the process
Load(io) ==
    /\ boot = "load"
    /\ loadResult' \in load(config, io)
    /\ boot' = IF loadResult'.result = "Ok" THEN "sources" ELSE "failed"
    /\ UNCHANGED <<config, sourceSet, streamSet, public_routes>>
    /\ UNCHANGED <<fanVars, rvVars, srcVars, runVars, outVars, lockVars>>

\* SourceSet::new: one rendezvous, one live_channel and one thread per entry
\* of Config.source
StartSources ==
    /\ boot = "sources"
    /\ sourceSet' = config.source
    /\ boot' = "streams"
    /\ UNCHANGED <<config, loadResult, streamSet, public_routes>>
    /\ UNCHANGED <<fanVars, rvVars, srcVars, runVars, outVars, lockVars>>

\* SourceSet::source_stream: Some(receiver) when the name is a key of sources
\* (the publisher of a started source is alive, so subscribe is Ok)
source_stream(name) == name \in sourceSet

\* StreamSet::new: for each entry of Config.stream, the input is the
\* source_stream of its source and a thread is spawned; a None panics, after
\* the streams visited before it were started
StartStreams ==
    /\ boot = "streams"
    /\ LET bad == {n \in DOMAIN config.stream : ~source_stream(config.stream[n].source)}
           inputs == [n \in DOMAIN config.stream |-> config.stream[n].source]
       IN IF bad = {}
          THEN streamSet' = inputs /\ boot' = "routes"
          ELSE /\ \E d \in SUBSET (DOMAIN config.stream \ bad) : streamSet' = Restrict(inputs, d)
               /\ boot' = "panicked"
    /\ UNCHANGED <<config, loadResult, sourceSet, public_routes>>
    /\ UNCHANGED <<fanVars, rvVars, srcVars, runVars, outVars, lockVars>>

\* Edicast::new: public_routes = config.stream.iter().map(|(name, config)|
\* (config.path, name)).collect(): of the streams that share a path, the one
\* visited last stays
BuildRoutes ==
    /\ boot = "routes"
    /\ LET used == {config.stream[n].path : n \in DOMAIN config.stream}
       IN public_routes' \in {f \in [used -> StreamNames] :
              \A p \in used : f[p] \in DOMAIN config.stream /\ config.stream[f[p]].path = p}
    /\ boot' = "running"
    /\ UNCHANGED <<config, loadResult, sourceSet, streamSet>>
    /\ UNCHANGED <<fanVars, rvVars, srcVars, runVars, outVars, lockVars>>

\* the process is started on a file that parses to any configuration
InitBoot ==
    /\ live_channel
    /\ rendezvous
    /\ wpc = "idle"
    /\ now = 0
    /\ offline = "Inactive"
    /\ NoRequests
    /\ NoRun
    /\ broadcast_channel
    /\ config \in Configs
    /\ boot = "load"
    /\ loadResult = Returned("none")
    /\ sourceSet = {}
    /\ streamSet = <<>>
    /\ public_routes = <<>>
    /\ NoLock

NextBoot ==
    \/ \E io \in {"Ok", "Io", "Toml"} : Load(io)
    \/ StartSources
    \/ StartStreams
    \/ BuildRoutes

SpecBoot == InitBoot /\ [][NextBoot]_vars

(***************************************************************************)
(*               Properties of a source and its control endpoint           *)
(***************************************************************************)
\* connect_source returns Ok(StartSource) on thread t in this step
ConnectReturnsOk(t) == tpc[t] # "reserved" /\ tpc'[t] = "reserved"

\* the worker is servicing a session: in incoming_source or in run_source
Servicing == wpc \in {"incoming", "session"}

\* C1: at most one broadcaster session is live on the source. Counting a
\* session as live from the Ok return of connect_source until the worker drops
\* the rendezvous handle taken for it, the count never exceeds one; a
\* connect_source returns Ok only when no session is live, and the session it
\* opens is the one whose handle the worker holds.
C1_AtMostOneLiveSession ==
    /\ [](liveCount \in {0, 1})
    /\ [](liveCount = 1 => owner # 0 /\ ~ready)
    /\ [][\A t \in Threads : ConnectReturnsOk(t) =>
              liveCount = 0 /\ liveCount' = 1 /\ owner' = t]_vars
    /\ [][\A t \in Threads : ConnectReturnsOk(t) /\ liveCount # 0 =>
              \A u \in Threads : ~ConnectReturnsOk(u)]_vars

\* a session is live on one thread while another thread's request for the same
\* source has just been refused with 409
C1_Witness ==
    /\ liveCount = 1
    /\ \E t \in Threads :
          /\ tpc[t] = "reserved"
          /\ lastResp[1] \in Threads \ {t}
          /\ lastResp[2] = "409"

\* C3: ready is false before any byte of the body is read (the decoder is
\* built, and the session run, only while ready is false and the worker holds
\* the handle of that request), and from the flip on it stays false until the
\* worker has finished servicing: ready goes from false to true only in a step
\* where the worker leaves incoming_source (run_source returned or the
\* reservation was abandoned). The handoff in which the worker takes the
\* command leaves ready false, and so does the Ok return of send. (A send
\* that fails with Disconnected never flipped ready successfully: it restores
\* the flag it took.)
C3_ReadyFalseUntilServiced ==
    /\ [](\A t \in Threads : tpc[t] \in {"reserved", "starting"} => ~ready /\ owner = t)
    /\ [](Servicing => ~ready /\ owner # 0)
    /\ [](\A t \in Threads : tpc[t] \in {"sending", "taken"} => ~ready)
    /\ [][~ready /\ ready' =>
             \/ Servicing /\ ~Servicing' /\ owner' = 0
             \/ ~Servicing /\ owner = 0 /\ ~recvAlive /\ lastSend'[2] = "Disconnected"
                  /\ lastSend' # lastSend]_vars
    /\ [][owner = 0 /\ owner' # 0 => ~ready /\ ~ready']_vars

\* the handoff is complete and start has returned on every control thread,
\* the worker is in run_source, and ready is still false
C3_Witness ==
    /\ wpc = "session"
    /\ ~ready
    /\ \A t \in Threads : tpc[t] = "idle"
    /\ lastResp[2] = "200"

\* no control thread has a request in progress and no send has ever returned
NoBroadcaster ==
    /\ \A t \in Threads : tpc[t] = "idle"
    /\ lastSend[2] = "none"
    /\ liveCount = 0

\* C11: in silence mode with no broadcaster connecting, the k-th silence frame
\* since the loop's epoch is published no earlier than epoch + k * buffer_ms.
C11_SilencePacedByBufferMs ==
    [][NoBroadcaster /\ silences' = silences + 1
          => now >= epoch + silences' * BufferTicks]_vars

\* C12: in both offline modes, a connect_source that found the slot free (its
\* swap saw ready = true: no live session, no other pending connect) eventually
\* returns Ok, with the worker in incoming_source for it; the thread is never
\* blocked forever in the rendezvous handoff.
C12_ConnectEventuallyReturnsOk ==
    \A t \in Threads :
        (tpc[t] = "sending") ~> (tpc[t] = "reserved" /\ Servicing)

\* the media types the control endpoint accepts, and the Content-Type headers
\* whose text before the first ';' is one of them
SupportedTypes == {"audio/mpeg", "audio/mp3", "audio/ogg", "application/ogg"}
Supported == {h \in ContentTypes : h # <<>> /\ h[1] \in SupportedTypes}

\* the request leaves the source as it is: nothing is reserved, the session
\* and the requests in progress are undisturbed
SourceUntouched ==
    UNCHANGED <<ready, owner, wpc, tpc, req, liveCount, txDropped>>

\* what every step of dispatch on thread t for url u that changes the state
\* shows: the thread was idle, and the step either records a response to t for
\* u or changes one of the other variables dispatch writes
DispatchedBy(t, u) ==
    /\ tpc[t] = "idle"
    /\ IF lastResp' = lastResp
       THEN <<ready, tpc, lastSend, req, liveCount>>' # <<ready, tpc, lastSend, req, liveCount>>
       ELSE lastResp'[1] = t /\ lastResp'[3] = u

C16_UnknownSourceIs404 ==
    [][\A t \in Threads : DispatchedBy(t, "/source/nope") =>
         \A h \in ContentTypes :
          Dispatch(t, "PUT", "/source/nope", h) =>
             /\ lastResp' = <<t, "404", "/source/nope">>
             /\ SourceUntouched]_vars

\* C16: a PUT to /source/<name>, <name> not a configured source, is answered
\* 404 when its Content-Type is supported and 415 when it is unsupported or
\* absent; in both cases ready does not change.
C16_UnknownSourceIs404IfTypeSupported ==
    [][\A t \in Threads : DispatchedBy(t, "/source/nope") =>
         \A h \in ContentTypes :
          Dispatch(t, "PUT", "/source/nope", h) =>
             /\ lastResp' = <<t, IF h \in Supported THEN "404" ELSE "415", "/source/nope">>
             /\ SourceUntouched]_vars

\* a request for the unknown source was answered 404 while a session is live
C16_Witness ==
    /\ lastResp[2] = "404"
    /\ lastResp[3] = "/source/nope"
    /\ wpc = "session"

\* C17: a request on a /source/<name> path with a method other than SOURCE or
\* PUT is answered 405, a request on a path not under /source/ is answered
\* 404; neither reserves the slot.
C17_MethodAndPathFilter ==
    /\ [][\A t \in Threads : DispatchedBy(t, "/other") =>
            \A m \in Methods, h \in ContentTypes :
                Dispatch(t, m, "/other", h) =>
                    lastResp' = <<t, "404", "/other">> /\ SourceUntouched]_vars
    /\ [][\A t \in Threads, u \in Urls \ {"/other"} : DispatchedBy(t, u) =>
            \A m \in Methods \ {"SOURCE", "PUT"}, h \in ContentTypes :
                Dispatch(t, m, u, h) =>
                    lastResp' = <<t, "405", u>> /\ SourceUntouched]_vars

\* a POST on /source/foo was answered 405 while the slot was free
C17_Witness ==
    /\ lastResp[2] = "405"
    /\ lastResp[3] = "/source/foo"
    /\ ready
    /\ liveCount = 0

\* C18: a PUT or SOURCE on /source/foo whose Content-Type, up to the first
\* ';', is not a supported type, or is absent, is answered 415 and leaves ready
\* and the live session as they are.
C18_UnsupportedTypeIs415 ==
    [][\A t \in Threads : DispatchedBy(t, "/source/foo") =>
         \A m \in {"PUT", "SOURCE"}, h \in ContentTypes \ Supported :
          Dispatch(t, m, "/source/foo", h) =>
             /\ lastResp' = <<t, "415", "/source/foo">>
             /\ SourceUntouched]_vars

\* a request on /source/foo was answered 415 while a session is live
C18_Witness ==
    /\ lastResp[2] = "415"
    /\ lastResp[3] = "/source/foo"
    /\ wpc = "session"
    /\ ~ready

\* the states in which the worker shows its offline behaviour
OfflineStates ==
    IF offline = "Inactive" THEN {"recv"} ELSE {"silence_epoch", "silence_timer"}

\* a connect_source on thread t passes its swap of ready in this step
ConnectBegins(t) == tpc[t] = "idle" /\ tpc'[t] # "idle"

\* C19: when decoder construction fails after a successful reservation,
\* dispatch returns without start (the reservation is dropped while the worker
\* waits for the decoder with ready false); the worker then leaves
\* incoming_source for its offline behaviour without running a session, which
\* sets ready to true and frees the slot, and this eventually happens; a
\* connect_source that then finds ready true is not answered Busy.
C19_FailedDecoderReleasesSlot ==
    /\ [][~txDropped /\ txDropped' =>
             \E t \in Threads : /\ tpc[t] = "reserved" /\ tpc'[t] = "idle"
                                /\ owner = t /\ owner' = t
                                /\ wpc' = "incoming" /\ ~ready']_vars
    /\ [](txDropped => wpc = "incoming" /\ ~ready)
    /\ [][txDropped /\ ~txDropped' =>
             /\ wpc' \in OfflineStates
             /\ ready' /\ owner' = 0 /\ liveCount' = 0]_vars
    /\ [][\A t \in Threads : ready /\ ConnectBegins(t) =>
             tpc'[t] = "sending" /\ lastSend' = lastSend /\ lastResp' = lastResp]_vars
    /\ (txDropped ~> (~txDropped /\ ready /\ wpc \in OfflineStates))

\* the decoder of a SOURCE request could not be built: its reservation is
\* dropped while the worker of a silence-mode source waits for the decoder
C19_Witness ==
    /\ txDropped
    /\ wpc = "incoming"
    /\ offline = "Silence"
    /\ \A t \in Threads : tpc[t] = "idle"
    /\ lastResp[2] = "200"

Reserved(t) == tpc[t] \in {"reserved", "starting"}

\* C30: in dispatch the reservation comes first: the connection is upgraded
\* or the body read for init_decoder only by a thread whose connect_source
\* returned Ok (the worker holds the handle made from its value and the slot
\* is taken); the thread goes on to StartSource::start, and the worker gets
\* the decoder, only when init_decoder returned Ok; and a request that is
\* answered 404, 405, 415 or 409 never got that far.
C30_ReservationPrecedesBodyAndCommit ==
    /\ [](\A t \in Threads :
            Reserved(t) =>
                /\ owner = t /\ ~ready /\ wpc = "incoming" /\ liveCount = 1
                /\ req[t].decoder = IF tpc[t] = "starting" THEN "Ok" ELSE "none")
    /\ [][ /\ \A t \in Threads :
                (tpc[t] # "reserved" /\ tpc'[t] = "reserved")
                    => (tpc[t] = "taken" /\ lastSend'[1] = t /\ lastSend'[2] = "Ok")
           /\ \A t \in Threads :
                (tpc[t] # "starting" /\ tpc'[t] = "starting")
                    => (tpc[t] = "reserved" /\ req'[t].decoder = "Ok")
           /\ (wpc # "session" /\ wpc' = "session")
                    => (owner # 0 /\ tpc[owner] = "starting" /\ req[owner].decoder = "Ok")
           /\ \A t \in Threads :
                (lastResp' # lastResp /\ lastResp'[1] = t
                    /\ lastResp'[2] \in {"404", "405", "415", "409"})
                    => (tpc[t] = "idle" /\ tpc'[t] = "idle" /\ req'[t] = NoReq) ]_vars

\* C30 witness: a PUT was admitted, its decoder constructed and handed to
\* the worker, which runs the session; a second request has been answered
\* 409 since.
C30_Witness ==
    /\ wpc = "session"
    /\ owner # 0
    /\ lastResp[1] # owner
    /\ lastResp[2] = "409"
    /\ \A t \in Threads : tpc[t] = "idle"

\* C34: while the worker holds a reservation that is neither committed nor
\* abandoned yet it waits for the decoder: it publishes nothing (no silence
\* frame either) and leaves the wait only for the session, once the decoder
\* was sent, or for its offline behaviour, once the reservation was dropped.
\* In silence mode an abandoned reservation takes the worker back into the
\* silence loop with the epoch and the accumulated duration it had, while a
\* session that ran is followed by a fresh epoch and a duration of zero.
C34_WorkerWaitsForDecoder ==
    [][ /\ wpc = "incoming" =>
              /\ silences' = silences /\ published' = published
              /\ epoch' = epoch /\ duration' = duration
              /\ \/ wpc' = "incoming"
                 \/ wpc' = "session" /\ owner # 0 /\ tpc[owner] = "starting"
                 \/ wpc' \in OfflineStates /\ txDropped /\ ~txDropped'
        /\ (wpc = "incoming" /\ wpc' # "incoming" /\ wpc' # "session" /\ offline = "Silence")
              => wpc' = "silence_timer"
        /\ (wpc = "session" /\ wpc' \notin {"session", "dead"} /\ offline = "Silence")
              => wpc' = "silence_epoch"
        /\ (wpc = "silence_epoch" /\ wpc' # "silence_epoch")
              => (wpc' = "silence_timer" /\ epoch' = now /\ duration' = 0) ]_vars

\* C34 witness: in silence mode the worker took, some ticks after the epoch
\* of its silence loop, a reservation whose decoder could not be built; it
\* is still waiting, and no thread is in dispatch.
C34_Witness ==
    /\ offline = "Silence"
    /\ wpc = "incoming"
    /\ txDropped
    /\ duration > 0
    /\ now > epoch
    /\ \A t \in Threads : tpc[t] = "idle"

(***************************************************************************)
(*                Properties of a stream and its listeners                 *)
(***************************************************************************)
\* listener l has been given a response with a StreamBody
Attached(l) == lst[l] # "none"

\* the step leaves everything listener k has and will be given as it was
ListenerUntouched(k) ==
    /\ lst'[k] = lst[k]
    /\ lnext'[k] = lnext[k]
    /\ lbody'[k] = lbody[k]
    /\ recv(k)' = recv(k)

\* C21: the body of a listener yields the values its Receiver is given, in
\* the order they were sent and without a gap, starting with the first one
\* sent after it subscribed; it ends normally only when the broadcast is
\* closed and everything sent was yielded; when the recv reports Lagged the
\* body ends with an error at that poll, with no further frame, and only then.
\* The stream worker's send is always possible whatever the listeners do, and
\* a poll or a disconnection of one listener changes neither the channel nor
\* what another listener has or is given next.
C21_ListenerBodyFollowsBroadcast ==
    /\ [](\A l \in Listeners : Attached(l) =>
            /\ lstart[l] + Len(lbody[l]) <= Len(stored)
            /\ lbody[l] = SubSeq(stored, lstart[l] + 1, lstart[l] + Len(lbody[l])))
    /\ [](\A l \in Listeners : lst[l] = "ended" =>
            Closed /\ lstart[l] + Len(lbody[l]) = Len(stored))
    /\ [][\A l \in Listeners : lst[l] = "streaming" /\ lst'[l] \in {"streaming", "ended", "errored"} =>
            /\ lnext'[l] # lnext[l] \/ lst'[l] # lst[l] =>
                 /\ recv(l) = "Ok" => lst'[l] = "streaming" /\ Len(lbody'[l]) = Len(lbody[l]) + 1
                 /\ recv(l) = "Closed" => lst'[l] = "ended" /\ lbody'[l] = lbody[l]
                 /\ recv(l) = "Lagged" => lst'[l] = "errored" /\ lbody'[l] = lbody[l]
            /\ lst'[l] = "errored" => recv(l) = "Lagged"
            /\ lst'[l] = "ended" => recv(l) = "Closed"]_vars
    /\ []("thread" \in outSenders /\ encodes < MaxChunks => ENABLED StreamEncode(1))
    /\ [][\A l \in Listeners : PollFrame(l) \/ ListenerDisconnect(l) =>
            /\ UNCHANGED <<slots, tail, stored, encodes>>
            /\ \A k \in Listeners \ {l} : ListenerUntouched(k)]_vars

\* one listener lagged more than the buffer holds and got the error, while
\* the other was given every value sent, more than the buffer holds, and
\* then the normal end
C21_Witness ==
    /\ lst[1] = "errored"
    /\ lst[2] = "ended"
    /\ Len(lbody[2]) > STREAM_BUFFER_SIZE
    /\ Len(lbody[1]) < Len(lbody[2])

\* C22: the stream worker sends a value on the broadcast only when the
\* encoder returned a non-empty buffer: no value the broadcast stored is
\* empty.
C22_OnlyNonEmptyPublished ==
    \A i \in 1..Len(stored) : stored[i].len > 0

(***************************************************************************)
(*                        Properties of the start-up                       *)
(***************************************************************************)
\* C23: Config::load returns Ok only if the source of every stream is a key
\* of the source map, and for a parsed configuration with a stream whose
\* source is unknown it returns StreamRefersToInvalidSource naming such a
\* stream and its source; so workers are started only after an Ok, every
\* started stream worker reads a started source, and StreamSet::new never
\* panics.
C23_LoadValidatesStreamSources ==
    /\ loadResult.result = "Ok" => Invalid(config) = {}
    /\ loadResult.result \notin {"none", "Ok", "Io", "Toml"} =>
         /\ loadResult.result = "StreamRefersToInvalidSource"
         /\ loadResult.stream_name \in Invalid(config)
         /\ loadResult.source_name = config.stream[loadResult.stream_name].source
         /\ loadResult.source_name \notin config.source
    /\ Invalid(config) # {} /\ loadResult.result # "none" =>
         loadResult.result # "Ok" /\ boot = "failed"
    /\ sourceSet # {} \/ DOMAIN streamSet # {} => loadResult.result = "Ok"
    /\ \A n \in DOMAIN streamSet : streamSet[n] \in sourceSet /\ streamSet[n] \in config.source
    /\ boot # "panicked"
    /\ boot \in {"routes", "running"} => DOMAIN streamSet = DOMAIN config.stream

\* load has refused a configuration in which one stream has a declared source
\* and another one has not
C23_Witness ==
    /\ boot = "failed"
    /\ loadResult.result = "StreamRefersToInvalidSource"
    /\ \E n, m \in DOMAIN config.stream :
          /\ config.stream[n].source \in config.source
          /\ config.stream[m].source \notin config.source
    /\ sourceSet = {} /\ DOMAIN streamSet = {}

\* C24: in a running system no two streams share a path, the routing table
\* maps the path of every configured stream to that stream, and so every
\* configured stream is reachable.
C24_StreamPathsDistinct ==
    boot = "running" =>
        /\ \A n, m \in DOMAIN config.stream :
              n # m => config.stream[n].path # config.stream[m].path
        /\ \A n \in DOMAIN config.stream :
              /\ config.stream[n].path \in DOMAIN public_routes
              /\ public_routes[config.stream[n].path] = n

\* C25: the source worker ends only when its command channel is closed: the
\* SourceSet keeps the RendezvousSender for good, so whatever the requests,
\* the abandoned reservations, the session ends, the decoder's errors and the
\* timeouts, the worker is running and its receiver is alive.
C25_WorkerOutlivesEverySession ==
    wpc # "dead" /\ recvAlive

(***************************************************************************)
(*                        Properties of run_source                         *)
(***************************************************************************)
\* every io.read() so far returned at once, with a frame of one second
InstantOneSecondDecoder ==
    \A i \in 1..Len(decoded) :
        /\ decoded[i].at = decoded[i].began
        /\ Len(decoded[i].samples) = decoded[i].channels * decoded[i].sample_rate

\* C13: in a session whose decoder returns a 1-second frame immediately on
\* every read, any two consecutive published batches are at least buffer_ms
\* apart in time.
C13_BatchesBufferMsApart ==
    InstantOneSecondDecoder =>
        \A i \in 1..(Len(batches) - 1) : batches[i + 1].at - batches[i].at >= buffer_ms

\* PcmData::silence(duration): sample_rate and channels
silence_sample_rate == 44100
silence_channels == 2

\* PcmData::silence(duration), duration = buffer_ms milliseconds: sample_count
\* (duration.as_nanos() * sample_rate / 1_000_000_000 is ms * sample_rate / 1000
\* for a duration of whole milliseconds)
silence_sample_count(ms) ==
    ((ms * silence_sample_rate) \div MsPerSec) * silence_channels

\* samples.len() is a multiple of channels, sample_rate > 0, channels >= 1
WellFormed(len, channels, sample_rate) ==
    /\ channels >= 1
    /\ sample_rate > 0
    /\ len % channels = 0

\* C14: every PcmData published on the source's broadcast, by the silence loop
\* or by a session, has samples.len() a multiple of channels, sample_rate > 0
\* and channels >= 1.
C14_PublishedFramesWellFormed ==
    /\ WellFormed(silence_sample_count(buffer_ms), silence_channels, silence_sample_rate)
    /\ \A i \in 1..Len(batches) :
          WellFormed(Len(batches[i].samples), batches[i].channels, batches[i].sample_rate)

\* the per-channel buffer_samples of a frame of the given sample rate
BatchSamples(rate) == (buffer_ms * rate) \div MsPerSec

\* C27: once run_source has processed a decoded frame, every batch published
\* holds buffer_samples per-channel samples times channels, with the sample
\* rate and channels of a decoded frame, and the working buffer holds less
\* than one batch (a buffer of exactly one batch was published).
C27_BatchesAreWholeAndResidueSmaller ==
    /\ \A i \in 1..Len(batches) :
          /\ \E j \in 1..Len(decoded) :
                /\ batches[i].channels = decoded[j].channels
                /\ batches[i].sample_rate = decoded[j].sample_rate
          /\ Len(batches[i].samples) =
                BatchSamples(batches[i].sample_rate) * batches[i].channels
    /\ (rpc = "sleep" /\ lastRead = "Ok") =>
          Len(buffer) < BatchSamples(pcm.sample_rate) * pcm.channels

\* the sum of the durations (samples.len() / channels) / sample_rate of the
\* frames ps, as a fraction <<numerator, denominator>> of a second
RECURSIVE DurationSum(_)
DurationSum(ps) ==
    IF ps = <<>> THEN <<0, 1>>
    ELSE LET f == ps[Len(ps)]
             r == DurationSum(SubSeq(ps, 1, Len(ps) - 1))
         IN <<r[1] * f.sample_rate + (Len(f.samples) \div f.channels) * r[2],
              r[2] * f.sample_rate>>

\* two fractions are the same number
SameRatio(a, b) == a[1] * b[2] = b[1] * a[2]

\* elapsed is the sum of the durations of the frames run_source has finished
\* with: all of those decoded, but the last while its batches are drained
ElapsedIsDurationSum ==
    SameRatio(elapsed,
              DurationSum(IF rpc = "drain" THEN SubSeq(decoded, 1, Len(decoded) - 1)
                          ELSE decoded))

\* C28 (as claimed): the i-th io.read() of a session begins no earlier than
\* epoch plus the exact sum of the durations of the frames decoded before
\* it, and elapsed equals that sum, which reads that are skipped do not
\* change.
C28_ReadsNoEarlierThanExactElapsed ==
    /\ ElapsedIsDurationSum
    /\ \A i \in 1..Len(decoded) :
          LET s == DurationSum(SubSeq(decoded, 1, i - 1))
          IN (decoded[i].began - run_epoch) * s[2] >= MsPerSec * s[1]

\* C28 (amended): the i-th io.read() of a session begins no earlier than
\* epoch plus the sum of the durations of the frames decoded before it
\* rounded down to a whole tick of the clock, and elapsed equals the exact
\* sum, which reads that are skipped do not change.
C28_ReadsNoEarlierThanTruncatedElapsed ==
    /\ ElapsedIsDurationSum
    /\ \A i \in 1..Len(decoded) :
          LET s == DurationSum(SubSeq(decoded, 1, i - 1))
          IN decoded[i].began - run_epoch >= (MsPerSec * s[1]) \div s[2]

\* C28 witness: a second frame was read right when the sleep ended, which
\* is before epoch plus the duration of the first frame since that duration
\* is no whole number of ticks; a read was skipped since, and elapsed is the
\* sum of both durations.
C28_Witness ==
    /\ Len(decoded) = 2
    /\ LET s == DurationSum(SubSeq(decoded, 1, 1))
       IN /\ decoded[2].began - run_epoch = (MsPerSec * s[1]) \div s[2]
          /\ (decoded[2].began - run_epoch) * s[2] < MsPerSec * s[1]
    /\ lastRead = "SkippedData"
    /\ rpc = "sleep"
    /\ elapsed # <<0, 1>>

\* the decoder's last answer is an error run_source skips
Skipped == lastRead \in {"SkippedData", "MalformedData"}

\* C29: a read answered SkippedData or MalformedData leaves the working
\* buffer, elapsed and the published batches as they were and run_source
\* goes on to its next read; run_source returns only on Eof or Io; so as
\* long as the decoder's last answer is a skipped error the session is live
\* and the slot is taken.
C29_SkippedErrorsKeepTheSession ==
    /\ [][ (rpc = "read" /\ rpc' # "read" /\ lastRead' \in {"SkippedData", "MalformedData"})
             => /\ rpc' = "sleep"
                /\ UNCHANGED <<buffer, elapsed, batches, decoded>> ]_vars
    /\ [](rpc \in {"Ok", "Err", "returned"} => lastRead \in {"Eof", "Io"})
    /\ [](rpc # "returned" => ~ready /\ owner # 0 /\ liveCount = 1 /\ wpc = "session")
    /\ [](Skipped => ENABLED SleepUntil \/ rpc = "read")

\* C29 witness: after a frame was decoded and a batch published, the decoder
\* has answered SkippedData; the session is live with its buffer, and
\* run_source is about to sleep before the next read.
C29_Witness ==
    /\ lastRead = "SkippedData"
    /\ rpc = "sleep"
    /\ batches # <<>>
    /\ buffer # <<>>
    /\ ~ready
    /\ liveCount = 1

\* s is a prefix of t
IsPrefix(s, t) == Len(s) <= Len(t) /\ s = SubSeq(t, 1, Len(s))

\* C32: within a session the samples of the batches published so far, in
\* order, are a prefix of the samples of the frames decoded so far, and what
\* follows that prefix is the working buffer: no sample is lost, duplicated
\* or reordered; and a session starts with an empty working buffer, whatever
\* the session before it left.
C32_PublishedIsPrefixOfDecoded ==
    /\ [](/\ IsPrefix(Concat(batches), Concat(decoded))
          /\ Concat(batches) \o buffer = Concat(decoded)
          /\ decoded = <<>> => buffer = <<>>)
    /\ [][(rpc = "returned" /\ rpc' # "returned")
             => (buffer' = <<>> /\ decoded' = <<>> /\ batches' = <<>>)]_vars

\* C32 witness: two frames were decoded, batches were published out of both
\* and a residue of the second is left in the working buffer.
C32_Witness ==
    /\ Len(decoded) = 2
    /\ Len(Concat(batches)) > Len(decoded[1].samples)
    /\ buffer # <<>>
    /\ rpc = "sleep"

\* C33: the batch-detaching loop of run_source terminates for every frame,
\* buffer_ms and sample rate: each turn of the loop that is followed by
\* another test of the loop condition has shortened the working buffer.
C33_DetachLoopTerminates ==
    [][(rpc = "drain" /\ rpc' = "drain") => Len(buffer') < Len(buffer)]_vars

(***************************************************************************)
(*                  Properties of the rendezvous channel                   *)
(***************************************************************************)
\* this step is thread t's ready.swap(false) at the start of a send
IsSwapBy(t) ==
    /\ tpc[t] = "idle"
    /\ \/ tpc'[t] = "sending"
       \/ lastSend' # lastSend /\ lastSend'[1] = t /\ lastSend'[2] = "Busy"

\* in this step send returns r on thread t
SendReturned(t, r) ==
    lastSend' # lastSend /\ lastSend'[1] = t /\ lastSend'[2] = r

\* thread u's send has flipped ready and the handle made from its value has
\* not been dropped (it may not have been made yet)
Holds(u) == tpc[u] = "sending" \/ owner = u

\* C2: when two sends race (the second swaps while the first has flipped
\* ready and the handle produced from it has not been dropped), the second
\* returns Busy without entering the handoff, the first returns Ok once the
\* receiver has taken its value, and never do two sends hold the slot.
C2_RacingSendsOneOkOtherBusy ==
    /\ [](Cardinality({u \in Threads : Holds(u)}) <= 1)
    /\ [][ /\ \A t, u \in Threads :
                (t # u /\ IsSwapBy(t) /\ Holds(u)) =>
                    (SendReturned(t, "Busy") /\ tpc'[t] = "idle")
           /\ \A u \in Threads :
                (tpc[u] = "taken" /\ tpc'[u] # "taken") => SendReturned(u, "Ok")
           /\ \A u \in Threads :
                SendReturned(u, "Ok") => tpc[u] = "taken" ]_vars

\* C2 witness: thread u's send returned (Ok: its handle is live) and the
\* racing send of thread t has just been answered Busy.
C2_Witness ==
    \E t, u \in Threads :
        /\ t # u
        /\ owner = u /\ tpc[u] = "idle"
        /\ lastSend[1] = t /\ lastSend[2] = "Busy"

\* C4: dropping the handle sets ready to true; whenever no handle is live
\* and no send is in flight ready is true, so the next send is not answered
\* Busy but enters the handoff, and it returns Ok once the receiver receives.
C4_SlotReopensOnHandleDrop ==
    /\ []((recvAlive /\ owner = 0 /\ \A u \in Threads : tpc[u] # "sending") => ready)
    /\ [](\A t \in Threads : tpc[t] = "taken" => ENABLED send_ok(t, "idle"))
    /\ [][ /\ (owner # 0 /\ owner' = 0) => ready'
           /\ \A t \in Threads :
                (IsSwapBy(t) /\ owner = 0 /\ \A u \in Threads : tpc[u] # "sending")
                    => (tpc'[t] = "sending" /\ lastSend' = lastSend)
           /\ \A t \in Threads :
                (tpc[t] = "taken" /\ tpc'[t] # "taken")
                    => (SendReturned(t, "Ok") /\ tpc'[t] = "idle") ]_vars

\* C4 witness: thread u was admitted and its handle has been dropped since;
\* the send thread t made afterwards has been taken by the receiver.
C4_Witness ==
    \E t, u \in Threads :
        /\ t # u
        /\ lastSend[1] = u /\ lastSend[2] = "Ok"
        /\ owner = t /\ tpc[t] = "taken"

\* C5 (as claimed): every send that begins after the receiver was dropped
\* returns Disconnected and leaves ready true.
C5_SendAfterReceiverDropIsDisconnected ==
    [][ \A t \in Threads :
          (lastSend' # lastSend /\ lastSend'[1] = t /\ ~recvAlive /\ tpc[t] # "taken")
             => (lastSend'[2] = "Disconnected" /\ ready') ]_vars

\* C5 (amended): on a channel whose receiver has been dropped no value is
\* taken any more and a send never returns Ok from there; a send returns
\* Disconnected, restoring ready to true, unless another send is between
\* its swap and its restore, in which case it returns Busy; with no send in
\* flight ready is true, so a later send is not answered Busy.
C5_SendAfterReceiverDrop ==
    /\ [](~recvAlive =>
            /\ owner = 0
            /\ (\A u \in Threads : tpc[u] # "sending") => ready
            /\ \A t \in Threads : tpc[t] = "sending" => ENABLED send_err(t))
    /\ [][ ~recvAlive =>
             /\ \A t \in Threads : tpc'[t] = "taken" => tpc[t] = "taken"
             /\ \A t \in Threads :
                  SendReturned(t, "Busy") => \E u \in Threads \ {t} : tpc[u] = "sending"
             /\ \A t \in Threads :
                  (tpc[t] = "sending" /\ tpc'[t] # "sending")
                     => (SendReturned(t, "Disconnected") /\ ready')
             /\ \A t \in Threads :
                  (IsSwapBy(t) /\ \A u \in Threads : tpc[u] # "sending")
                     => (tpc'[t] = "sending" /\ lastSend' = lastSend) ]_vars

\* C5 witness: with the receiver dropped, a send has returned Disconnected,
\* ready is true again and no send is in flight.
C5_Witness ==
    /\ ~recvAlive
    /\ lastSend[2] = "Disconnected"
    /\ ready
    /\ \A t \in Threads : tpc[t] = "idle"

\* C26: recv_deadline(d) called before d returns the handle when a sender is
\* already waiting, and returns Timeout only when d is reached; called at or
\* after d it returns a handle or Timeout.
C26_RecvDeadlineWaitsForDeadline ==
    \A d \in 0..MaxTime :
        wpc = "idle" /\ recvAlive =>
            /\ now < d /\ (\E t \in Threads : tpc[t] = "sending") => recv_deadline(d) = "Ok"
            /\ recv_deadline(d) = "Timeout" => now >= d
            /\ recv_deadline(d) \in {"Ok", "Timeout"}

(***************************************************************************)
(*                     Properties of the live_channel                      *)
(***************************************************************************)
\* s is a subsequence of t: s is obtained from t by deleting elements
RECURSIVE IsSubseq(_, _)
IsSubseq(s, t) ==
    IF s = <<>> THEN TRUE
    ELSE IF t = <<>> THEN FALSE
    ELSE IF Head(s) = Head(t) THEN IsSubseq(Tail(s), Tail(t))
    ELSE IsSubseq(s, Tail(t))

\* this step is a call of publish
IsPublishStep == Len(published') = Len(published) + 1
\* the item the publish call of this step was given
PublishedItem == published'[Len(published')]

\* C6: under any interleaving of publish, subscribe, recv and receiver
\* drops, the sequence of items each subscriber has received is a
\* subsequence of the sequence of published items, in publish order.
C6_ReceivedIsSubsequence ==
    \A c \in Chans : IsSubseq(received[c], published)

\* C6 witness: one subscriber received every item while another one, slow,
\* missed the second item and received the first and the third.
C6_Witness ==
    \E c, d \in Chans :
        /\ received[c] = <<1, 3>>
        /\ received[d] = <<1, 2, 3>>

\* C7 (as claimed): a publish made while some live subscriber's queue is
\* full returns, and every live subscriber whose queue has room gets the item.
C7_PublishReturnsDespiteFull ==
    [][ (IsPublishStep /\ \E c \in Range(txs) : try_send(c) = "Full")
        => /\ lastPub' = "returned"
           /\ \A d \in Range(txs) :
                 (rxAlive[d] /\ Len(queue[d]) < BUFFER_SIZE)
                    => queue'[d] = Append(queue[d], PublishedItem) ]_vars

\* C8: when a live subscriber's queue is full at publish time, the item is
\* dropped for that subscriber only: its queue is unchanged, it stays in the
\* subscriber set, and every other subscriber's queue is updated exactly as
\* its own state dictates (the item appended iff it is live with room).
C8_FullDropsNewestForThatSubscriberOnly ==
    [][ IsPublishStep =>
          \A c \in Range(txs) :
             (rxAlive[c] /\ Len(queue[c]) >= BUFFER_SIZE) =>
                /\ queue'[c] = queue[c]
                /\ Head(queue'[c]) # PublishedItem
                /\ c \in Range(txs')
                /\ \A d \in Range(txs) \ {c} :
                      queue'[d] = IF rxAlive[d] /\ Len(queue[d]) < BUFFER_SIZE
                                  THEN Append(queue[d], PublishedItem)
                                  ELSE queue[d] ]_vars

\* C8 witness: after the second publish, subscriber c still holds item 1
\* (its queue was full, item 2 was dropped for it) and is still subscribed,
\* while subscriber d got item 2.
C8_Witness ==
    \E c, d \in Range(txs) :
        /\ Len(published) = 2
        /\ rxAlive[c] /\ queue[c] = <<1>>
        /\ rxAlive[d] /\ queue[d] = <<2>>

\* C9 (as claimed): every publish completes, and afterwards the subscriber
\* set holds exactly the subscribers whose receive end is still alive.
C9_PublishRemovesExactlyTheDead ==
    [][ IsPublishStep =>
          /\ lastPub' = "returned"
          /\ Range(txs') = {c \in Range(txs) : rxAlive[c]} ]_vars

\* C10: once the LivePublisher has been dropped, every subscribe returns
\* NoPublisher (and adds nothing), and recv on an existing receiver never
\* blocks: it yields the item still queued, if any, and otherwise Closed.
C10_AfterPublisherDrop ==
    /\ [](pubState = "dropped" =>
            /\ ~txsSome
            /\ \A c \in Chans : rxAlive[c] => ENABLED Recv(c))
    /\ [][ pubState = "dropped" =>
            /\ (nsubs' # nsubs =>
                  /\ lastSub' = "NoPublisher"
                  /\ txs' = txs /\ rxAlive' = rxAlive /\ ~txsSome')
            /\ \A c \in Chans :
                  /\ (received'[c] # received[c] /\ rxAlive'[c]) =>
                        /\ queue[c] # <<>>
                        /\ received'[c] = Append(received[c], Head(queue[c]))
                        /\ ~closedSeen'[c]
                  /\ (closedSeen'[c] /\ ~closedSeen[c]) => queue[c] = <<>> ]_vars

\* C10 witness: the publisher is dropped, a subscribe made afterwards got
\* NoPublisher, and a subscriber that received an item has since seen Closed.
C10_Witness ==
    /\ pubState = "dropped"
    /\ lastSub = "NoPublisher"
    /\ \E c \in Chans : rxAlive[c] /\ closedSeen[c] /\ received[c] = <<1>>

(***************************************************************************)
(*         Properties of publish and subscribe running concurrently        *)
(***************************************************************************)
\* the publish of item d has been through its first loop
Sent(d) == d <= Completed \/ (d = Len(published) /\ ppc = "remove")

\* C31: a subscribe that runs while publish calls run is serialized with
\* them: never is a subscribe at its push while publish is in one of its
\* loops; a subscriber whose subscribe returned stays in txs for as long as
\* its receiver and the publisher live; it is passed no item whose publish
\* had completed when its subscribe began; and every item whose publish
\* began after its subscribe returned is offered to it (try_send on its
\* channel, which succeeds or finds the channel full).
C31_SubscribeSerializedWithPublish ==
    /\ ~(ppc \in {"send", "remove"} /\ \E c \in Chans : spc[c] = "locked")
    /\ \A c \in Chans :
          (spc[c] = "returned" /\ rxAlive[c] /\ pubState = "alive") => c \in Range(txs)
    /\ \A c \in Chans :
          \A d \in Range(received[c]) \cup Range(queue[c]) \cup offered[c] : d > sbegan[c]
    /\ \A c \in Chans :
          (spc[c] = "returned" /\ rxAlive[c]) =>
              \A d \in (sret[c] + 1)..Len(published) : Sent(d) => d \in offered[c]

\* C31 witness: a subscribe began while no publish had completed and
\* returned while the first publish was waiting for the lock: the subscriber
\* was offered that item and has received it, and it was offered the next
\* item too.
C31_Witness ==
    \E c \in Chans :
        /\ spc[c] = "returned"
        /\ sbegan[c] = 0
        /\ sret[c] = 1
        /\ received[c] = <<1>>
        /\ offered[c] = {1, 2}
        /\ ppc = "idle"

=============================================================================
